---- MODULE Spec2Model ----
(***************************************************************************)
(* c4fs: a copy-on-write, content-addressed filesystem overlay.            *)
(* The FS holds an immutable base manifest, a mutable layer manifest, an   *)
(* index per manifest and a content store.  Every operation of c4fs.go is  *)
(* an operator from the FS value (and its arguments) to a result, and an   *)
(* action that installs the result.                                        *)
(*                                                                         *)
(* A Go path string is a sequence of tokens: the component names, "." and  *)
(* "..", with "/" as a first token for a leading slash.  "" is << >>,      *)
(* "." is <<".">>, "/" is <<"/">>, "a/b" is <<"a","b">>, "/a" is           *)
(* <<"/","a">>.                                                            *)
(***************************************************************************)
EXTENDS Integers, Sequences, FiniteSets, TLC

VARIABLES base, baseIndex, layer, layerIndex, store, handle, view, mu, calls, nops

vars == <<base, baseIndex, layer, layerIndex, store, handle, view, mu, calls, nops>>

\* Number of state-changing calls explored from construction.
MaxOps == 2

\* ------------------------------------------------------------------------
\* path/filepath and strings
\* ------------------------------------------------------------------------

IsAbs(p) == p # << >> /\ p[1] = "/"

Comps(p) == IF IsAbs(p) THEN Tail(p) ELSE p

RECURSIVE CleanComps(_, _, _)
CleanComps(abs, rest, out) ==
    IF rest = << >> THEN out
    ELSE LET c == Head(rest)
             nxt == CASE c = "." -> out
                      [] c = "/" -> out
                      [] c = ".." ->
                            IF out # << >> /\ out[Len(out)] # ".."
                            THEN SubSeq(out, 1, Len(out) - 1)
                            ELSE IF abs THEN out ELSE Append(out, "..")
                      [] OTHER -> Append(out, c)
         IN CleanComps(abs, Tail(rest), nxt)

Clean(p) ==
    LET out == CleanComps(IsAbs(p), Comps(p), << >>)
    IN IF IsAbs(p) THEN <<"/">> \o out
       ELSE IF out = << >> THEN <<".">> ELSE out

Join(a, b) ==
    IF a = << >> /\ b = << >> THEN << >>
    ELSE IF a = << >> THEN Clean(b)
    ELSE Clean(a \o Comps(b))

Dir(p) ==
    IF IsAbs(p)
    THEN IF Len(p) <= 2 THEN <<"/">> ELSE Clean(SubSeq(p, 1, Len(p) - 1))
    ELSE IF Len(p) <= 1 THEN <<".">> ELSE Clean(SubSeq(p, 1, Len(p) - 1))

Base(p) ==
    IF p = << >> THEN <<".">>
    ELSE IF p = <<"/">> THEN <<"/">>
    ELSE <<p[Len(p)]>>

\* strings.HasPrefix(s, p + "/")
HasPrefixSlash(s, p) ==
    IF p = << >> THEN IsAbs(s)
    ELSE IF p = <<"/">> THEN FALSE
    ELSE Len(s) > Len(p) /\ SubSeq(s, 1, Len(p)) = p

\* strings.Contains(s, "/")
ContainsSlash(s) == IsAbs(s) \/ Len(s) >= 2

\* The normalisation every lookup and most mutations start with.
Normalize(p) ==
    LET c == Clean(p) IN IF c = <<".">> \/ c = <<"/">> THEN << >> ELSE c

\* ------------------------------------------------------------------------
\* c4m.Entry, c4.ID and the content store
\* ------------------------------------------------------------------------

TombstoneSize == -1
RootPerm == 493
SymlinkPerm == 511
CreatePerm == 420
DefaultDepth == 40

NilID == 0

RECURSIVE c4Identify(_)
c4Identify(d) == IF d = << >> THEN 1 ELSE 3 * c4Identify(Tail(d)) + Head(d)

FileMode(dir, symlink, perm) == [dir |-> dir, symlink |-> symlink, perm |-> perm]

Entry(mode, ts, size, name, id, target) ==
    [Mode |-> mode, Timestamp |-> ts, Size |-> size, Name |-> name,
     C4ID |-> id, Target |-> target]

IsDir(e) == e.Mode.dir

IsTombstone(e) == e.Size = TombstoneSize

\* c4m.Manifest.GetEntry: the first entry of that name, or none.
RECURSIVE ManifestGetEntry(_, _)
ManifestGetEntry(entries, name) ==
    IF entries = << >> THEN [found |-> FALSE]
    ELSE IF Head(entries).Name = name THEN [found |-> TRUE, entry |-> Head(entries)]
    ELSE ManifestGetEntry(Tail(entries), name)

\* c4m.Manifest.AddEntry
AddEntry(entries, e) == Append(entries, e)

MapPut(m, k, v) == [x \in (DOMAIN m) \cup {k} |-> IF x = k THEN v ELSE m[x]]

EmptyMap == [x \in {} |-> x]

RECURSIVE buildIndexFrom(_, _)
buildIndexFrom(entries, index) ==
    IF entries = << >> THEN index
    ELSE buildIndexFrom(Tail(entries), MapPut(index, Head(entries).Name, Head(entries)))

buildIndex(entries) == buildIndexFrom(entries, EmptyMap)

\* The store holds byte strings; a blob's key is its c4 ID.
StorePut(st, data) == st \cup {data}

StoreHas(st, id) == \E d \in st : c4Identify(d) = id

StoreGet(st, id) == CHOOSE d \in st : c4Identify(d) = id

\* ------------------------------------------------------------------------
\* The FS value
\* ------------------------------------------------------------------------

FS == [base |-> base, baseIndex |-> baseIndex, layer |-> layer,
       layerIndex |-> layerIndex, store |-> store, now |-> nops + 1]

New(b, st, t) ==
    [base |-> b, baseIndex |-> buildIndex(b), layer |-> << >>,
     layerIndex |-> EmptyMap, store |-> st, now |-> t]

RECURSIVE RemoveFirstNamed(_, _)
RemoveFirstNamed(entries, name) ==
    IF entries = << >> THEN << >>
    ELSE IF Head(entries).Name = name THEN Tail(entries)
    ELSE <<Head(entries)>> \o RemoveFirstNamed(Tail(entries), name)

\* Faulty variant: the write also evicts the same-named entry from base.
updateEntryEvictingBase(fs, entry) ==
    LET name == entry.Name
        kept == IF name \in DOMAIN fs.layerIndex
                THEN RemoveFirstNamed(fs.layer, name)
                ELSE fs.layer
    IN [fs EXCEPT !.layer = AddEntry(kept, entry),
                  !.layerIndex = MapPut(fs.layerIndex, name, entry),
                  !.base = RemoveFirstNamed(fs.base, name)]

\* Faulty variant: the write evicts the layer's first entry, whatever its name.
updateEntryDroppingHead(fs, entry) ==
    LET name == entry.Name
        kept == IF name \in DOMAIN fs.layerIndex /\ fs.layer # << >>
                THEN Tail(fs.layer)
                ELSE fs.layer
    IN [fs EXCEPT !.layer = AddEntry(kept, entry),
                  !.layerIndex = MapPut(fs.layerIndex, name, entry)]

\* Faulty variant: the write appends without evicting the old entry.
updateEntryAppending(fs, entry) ==
    [fs EXCEPT !.layer = AddEntry(fs.layer, entry),
               !.layerIndex = MapPut(fs.layerIndex, entry.Name, entry)]

updateEntryInLayer(fs, entry) ==
    LET name == entry.Name
        kept == IF name \in DOMAIN fs.layerIndex
                THEN RemoveFirstNamed(fs.layer, name)
                ELSE fs.layer
    IN [fs EXCEPT !.layer = AddEntry(kept, entry),
                  !.layerIndex = MapPut(fs.layerIndex, name, entry)]

RootEntry(fs) ==
    Entry(FileMode(TRUE, FALSE, RootPerm), fs.now, 0, << >>, NilID, << >>)

\* Faulty variant: base is consulted before the layer.
getEntryBaseFirst(fs, p) ==
    LET path == Normalize(p) IN
    IF path = << >> THEN [err |-> "", entry |-> RootEntry(fs)]
    ELSE IF path \in DOMAIN fs.baseIndex
         THEN [err |-> "", entry |-> fs.baseIndex[path]]
    ELSE IF path \in DOMAIN fs.layerIndex
         THEN IF fs.layerIndex[path].Size = TombstoneSize
              THEN [err |-> "ErrNotExist"]
              ELSE [err |-> "", entry |-> fs.layerIndex[path]]
    ELSE [err |-> "ErrNotExist"]

getEntry(fs, p) ==
    LET path == Normalize(p) IN
    IF path = << >> THEN [err |-> "", entry |-> RootEntry(fs)]
    ELSE IF path \in DOMAIN fs.layerIndex
         THEN IF fs.layerIndex[path].Size = TombstoneSize
              THEN [err |-> "ErrNotExist"]
              ELSE [err |-> "", entry |-> fs.layerIndex[path]]
    ELSE IF path \in DOMAIN fs.baseIndex
         THEN [err |-> "", entry |-> fs.baseIndex[path]]
    ELSE [err |-> "ErrNotExist"]

lstatEntry(fs, p) ==
    LET path == Normalize(p) IN
    IF path = << >> THEN [err |-> "", entry |-> RootEntry(fs)]
    ELSE IF path \in DOMAIN fs.layerIndex
         THEN IF fs.layerIndex[path].Size = TombstoneSize
              THEN [err |-> "ErrNotExist"]
              ELSE [err |-> "", entry |-> fs.layerIndex[path]]
    ELSE IF path \in DOMAIN fs.baseIndex
         THEN [err |-> "", entry |-> fs.baseIndex[path]]
    ELSE [err |-> "ErrNotExist"]

Exists(fs, p) == getEntry(fs, p).err = ""

IsDirPath(fs, p) ==
    LET r == getEntry(fs, p) IN IF r.err # "" THEN FALSE ELSE IsDir(r.entry)

\* ------------------------------------------------------------------------
\* Directory view
\* ------------------------------------------------------------------------

isDirectChild(parentPath, childPath) ==
    LET parent == Normalize(parentPath)
        child == Clean(childPath)
    IN IF parent = << >> THEN ~ContainsSlash(child)
       ELSE IF ~HasPrefixSlash(child, parent) THEN FALSE
       ELSE ~ContainsSlash(SubSeq(child, Len(parent) + 1, Len(child)))

DirEntryOf(basename, e) ==
    [name |-> basename, size |-> e.Size, mode |-> e.Mode,
     modTime |-> e.Timestamp, isDir |-> IsDir(e)]

\* First loop of readDir: acc is [seen, tombstones, entries].
RECURSIVE readDirLayer(_, _, _)
readDirLayer(entries, name, acc) ==
    IF entries = << >> THEN acc
    ELSE LET e == Head(entries)
             basename == Base(e.Name)
             nxt == IF isDirectChild(name, e.Name) /\ basename \notin acc.seen
                    THEN IF e.Size = TombstoneSize
                         THEN [acc EXCEPT !.seen = @ \cup {basename},
                                          !.tombstones = @ \cup {basename}]
                         ELSE [acc EXCEPT !.seen = @ \cup {basename},
                                          !.entries = Append(@, DirEntryOf(basename, e))]
                    ELSE acc
         IN readDirLayer(Tail(entries), name, nxt)

\* Second loop of readDir.
RECURSIVE readDirBase(_, _, _)
readDirBase(entries, name, acc) ==
    IF entries = << >> THEN acc
    ELSE LET e == Head(entries)
             basename == Base(e.Name)
             nxt == IF isDirectChild(name, e.Name)
                       /\ basename \notin acc.seen /\ basename \notin acc.tombstones
                    THEN [acc EXCEPT !.seen = @ \cup {basename},
                                     !.entries = Append(@, DirEntryOf(basename, e))]
                    ELSE acc
         IN readDirBase(Tail(entries), name, nxt)

readDir(fs, p) ==
    LET name == Normalize(p)
        a1 == readDirLayer(fs.layer, name,
                           [seen |-> {}, tombstones |-> {}, entries |-> << >>])
    IN readDirBase(fs.base, name, a1).entries

\* ------------------------------------------------------------------------
\* Symlink resolution, Stat, Open, ReadFile
\* ------------------------------------------------------------------------

\* strings.Split(path, "/") of a cleaned path: a leading slash gives an empty first component.
SplitSlash(p) == [k \in 1..Len(p) |-> IF p[k] = "/" THEN "" ELSE p[k]]

JoinAll(cs) == IF cs = << >> THEN << >> ELSE Clean(cs)

RECURSIVE resolveSymlink(_, _, _)
RECURSIVE resolveWalk(_, _, _)
resolveSymlink(fs, p, maxDepth) ==
    IF maxDepth <= 0 THEN [err |-> "ELOOP"]
    ELSE resolveWalk(fs, SplitSlash(Clean(p)), maxDepth)

\* The component loop: resolvedPath after component i is the join of the
\* components up to i that are neither "" nor "."; the loop leaves at the
\* first component whose path has no entry or is a symlink.
resolveWalk(fs, components, maxDepth) ==
    LET Walked(c) == c # "" /\ c # "."
        resolvedAt(i) == Clean(SelectSeq(SubSeq(components, 1, i), Walked))
        steps == {i \in 1..Len(components) : Walked(components[i])}
        stops == {i \in steps : LET r == lstatEntry(fs, resolvedAt(i)) IN
                                 r.err # "" \/ r.entry.Mode.symlink}
    IN IF stops = {}
       THEN IF steps = {} THEN lstatEntry(fs, << >>)
            ELSE lstatEntry(fs, resolvedAt(Len(components)))
       ELSE LET i == CHOOSE k \in stops : \A j \in stops : k <= j
                rp == resolvedAt(i)
                r == lstatEntry(fs, rp)
            IN IF r.err # "" THEN r
               ELSE LET t0 == r.entry.Target
                        dir == Dir(rp)
                        t1 == IF ~IsAbs(t0) /\ dir # <<".">> /\ dir # << >>
                              THEN Join(dir, t0) ELSE t0
                        t2 == IF i < Len(components)
                              THEN Join(t1, JoinAll(SubSeq(components, i + 1, Len(components))))
                              ELSE t1
                    IN resolveSymlink(fs, t2, maxDepth - 1)

FileInfoOf(e) ==
    [name |-> Base(e.Name), size |-> e.Size, mode |-> e.Mode,
     modTime |-> e.Timestamp, isDir |-> IsDir(e)]

\* Faulty variant: the entry at the name itself is reported, links not followed.
StatWithoutFollowing(fs, name) ==
    LET r == lstatEntry(fs, name) IN
    IF r.err # "" THEN [err |-> r.err] ELSE [err |-> "", info |-> FileInfoOf(r.entry)]

Stat(fs, name) ==
    LET r == resolveSymlink(fs, name, DefaultDepth) IN
    IF r.err # "" THEN [err |-> r.err] ELSE [err |-> "", info |-> FileInfoOf(r.entry)]

Lstat(fs, name) ==
    LET r == lstatEntry(fs, name) IN
    IF r.err # "" THEN [err |-> r.err] ELSE [err |-> "", info |-> FileInfoOf(r.entry)]

ReadLink(fs, name) ==
    LET r == lstatEntry(fs, name) IN
    IF r.err # "" THEN [err |-> r.err]
    ELSE IF ~r.entry.Mode.symlink THEN [err |-> "EINVAL"]
    ELSE [err |-> "", target |-> r.entry.Target]

openFile(fs, name, entry) ==
    IF ~StoreHas(fs.store, entry.C4ID) THEN [err |-> "EStore"]
    ELSE [err |-> "", kind |-> "file", data |-> StoreGet(fs.store, entry.C4ID),
          info |-> [FileInfoOf(entry) EXCEPT !.isDir = FALSE]]

openDir(fs, name, entry) ==
    [err |-> "", kind |-> "dir", entries |-> readDir(fs, name),
     info |-> [FileInfoOf(entry) EXCEPT !.mode = [@ EXCEPT !.dir = TRUE], !.isDir = TRUE]]

Open(fs, name) ==
    LET r == resolveSymlink(fs, name, DefaultDepth) IN
    IF r.err # "" THEN [err |-> r.err]
    ELSE IF IsDir(r.entry) THEN openDir(fs, r.entry.Name, r.entry)
    ELSE openFile(fs, name, r.entry)

\* io.ReadAll on the opened file: a directory handle's Read fails.
ReadFile(fs, name) ==
    LET f == Open(fs, name) IN
    IF f.err # "" THEN [err |-> f.err]
    ELSE IF f.kind = "dir" THEN [err |-> "EISDIR"]
    ELSE [err |-> "", data |-> f.data]

\* ------------------------------------------------------------------------
\* Flatten, Base, Layer, ReferencedIDs
\* ------------------------------------------------------------------------

TombstonedNames(entries) ==
    {entries[i].Name : i \in {j \in 1..Len(entries) : entries[j].Size = TombstoneSize}}

LiveNames(entries) ==
    {entries[i].Name : i \in {j \in 1..Len(entries) : entries[j].Size # TombstoneSize}}

Flatten(fs) ==
    LET tombstones == TombstonedNames(fs.layer)
        KeepBase(e) == e.Name \notin tombstones
        KeepLayer(e) == e.Size # TombstoneSize
    IN SelectSeq(fs.base, KeepBase) \o SelectSeq(fs.layer, KeepLayer)

BaseCopy(fs) == fs.base

LayerCopy(fs) == fs.layer

ReferencedIDs(fs) ==
    LET tombstones == TombstonedNames(fs.layer)
        layerEntries == LiveNames(fs.layer)
        fromBase == {fs.base[i].C4ID : i \in {j \in 1..Len(fs.base) :
                        /\ fs.base[j].Name \notin tombstones
                        /\ fs.base[j].Name \notin layerEntries
                        /\ ~IsDir(fs.base[j])
                        /\ fs.base[j].Size > 0}}
        fromLayer == {fs.layer[i].C4ID : i \in {j \in 1..Len(fs.layer) :
                        /\ fs.layer[j].Size # TombstoneSize
                        /\ ~IsDir(fs.layer[j])
                        /\ fs.layer[j].Size > 0}}
    IN fromBase \cup fromLayer

\* ------------------------------------------------------------------------
\* Mutations: each returns [err, fs]; err = "" is a nil error
\* ------------------------------------------------------------------------

\* Faulty variant: the marker is an empty regular entry, not a tombstone.
TombstoneWithZeroSize(name, t) == Entry(FileMode(FALSE, FALSE, 0), t, 0, name, NilID, << >>)

Tombstone(name, t) == Entry(FileMode(FALSE, FALSE, 0), t, TombstoneSize, name, NilID, << >>)

WriteFile(fs, name, data, perm, putOK) ==
    IF ~putOK THEN [err |-> "EStore", fs |-> fs]
    ELSE LET stored == [fs EXCEPT !.store = StorePut(fs.store, data)]
             entry == Entry(perm, fs.now, Len(data), Clean(name), c4Identify(data), << >>)
         IN [err |-> "", fs |-> updateEntryInLayer(stored, entry)]

\* Faulty variant: only the layer is consulted for an existing entry.
MkdirIgnoringBase(fs, p, perm) ==
    LET name == Normalize(p) IN
    IF name = << >> THEN [err |-> "ErrExist", fs |-> fs]
    ELSE IF ManifestGetEntry(fs.layer, name).found THEN [err |-> "ErrExist", fs |-> fs]
    ELSE LET entry == Entry([perm EXCEPT !.dir = TRUE], fs.now, 0, name, NilID, << >>)
         IN [err |-> "", fs |-> updateEntryInLayer(fs, entry)]

\* Faulty variant: the root is not rejected.
MkdirWithoutRootCheck(fs, p, perm) ==
    LET name == Normalize(p) IN
    IF ManifestGetEntry(fs.layer, name).found THEN [err |-> "ErrExist", fs |-> fs]
    ELSE IF ManifestGetEntry(fs.base, name).found THEN [err |-> "ErrExist", fs |-> fs]
    ELSE LET entry == Entry([perm EXCEPT !.dir = TRUE], fs.now, 0, name, NilID, << >>)
         IN [err |-> "", fs |-> updateEntryInLayer(fs, entry)]

Mkdir(fs, p, perm) ==
    LET name == Normalize(p) IN
    IF name = << >> THEN [err |-> "ErrExist", fs |-> fs]
    ELSE IF ManifestGetEntry(fs.layer, name).found THEN [err |-> "ErrExist", fs |-> fs]
    ELSE IF ManifestGetEntry(fs.base, name).found THEN [err |-> "ErrExist", fs |-> fs]
    ELSE LET entry == Entry([perm EXCEPT !.dir = TRUE], fs.now, 0, name, NilID, << >>)
         IN [err |-> "", fs |-> updateEntryInLayer(fs, entry)]

RECURSIVE MkdirAll(_, _, _)
MkdirAll(fs, p, perm) ==
    LET name == Clean(p) IN
    IF Exists(fs, name)
    THEN IF ~IsDirPath(fs, name) THEN [err |-> "ENOTDIR", fs |-> fs]
         ELSE [err |-> "", fs |-> fs]
    ELSE LET parent == Dir(name)
             pr == IF parent # <<".">> /\ parent # <<"/">> /\ parent # << >>
                   THEN MkdirAll(fs, parent, perm)
                   ELSE [err |-> "", fs |-> fs]
         IN IF pr.err # "" THEN pr ELSE Mkdir(pr.fs, name, perm)

\* Faulty variant: a directory is tombstoned without looking at its children.
RemoveWithoutEmptyCheck(fs, p) ==
    LET name == Normalize(p) IN
    IF name = << >> THEN [err |-> "ErrRoot", fs |-> fs]
    ELSE LET r == getEntry(fs, name) IN
         IF r.err # "" THEN [err |-> r.err, fs |-> fs]
         ELSE [err |-> "", fs |-> updateEntryInLayer(fs, Tombstone(name, fs.now))]

\* Faulty variant: removing a path that the layer holds drops the layer entry
\* instead of replacing it by a tombstone.
RemoveByEviction(fs, p) ==
    LET name == Normalize(p) IN
    IF name = << >> THEN [err |-> "ErrRoot", fs |-> fs]
    ELSE IF getEntry(fs, name).err # "" THEN [err |-> getEntry(fs, name).err, fs |-> fs]
    ELSE IF name \in DOMAIN fs.layerIndex
         THEN [err |-> "",
               fs |-> [fs EXCEPT !.layer = RemoveFirstNamed(fs.layer, name),
                                 !.layerIndex = [x \in (DOMAIN fs.layerIndex) \ {name}
                                                    |-> fs.layerIndex[x]]]]
         ELSE [err |-> "", fs |-> updateEntryInLayer(fs, Tombstone(name, fs.now))]

Remove(fs, p) ==
    LET name == Normalize(p) IN
    IF name = << >> THEN [err |-> "ErrRoot", fs |-> fs]
    ELSE LET r == getEntry(fs, name) IN
         IF r.err # "" THEN [err |-> r.err, fs |-> fs]
         ELSE IF IsDir(r.entry) /\ Len(readDir(fs, name)) > 0
         THEN [err |-> "ENOTEMPTY", fs |-> fs]
         ELSE [err |-> "", fs |-> updateEntryInLayer(fs, Tombstone(name, fs.now))]

\* The recursion of RemoveAll has no bound in the code; the model gives up
\* (err = "Overflow": the goroutine's stack is exhausted) after MaxRecursion
\* nested calls, deeper than any tree the model builds.
MaxRecursion == 6

RECURSIVE RemoveAllRec(_, _, _)
RECURSIVE RemoveAllChildren(_, _, _, _)
RemoveAllRec(fs, p, fuel) ==
    LET name == Clean(p)
        r == getEntry(fs, name)
    IN IF fuel = 0 THEN [err |-> "Overflow", fs |-> fs]
       ELSE IF r.err # "" THEN [err |-> "", fs |-> fs]
       ELSE LET cr == IF IsDir(r.entry)
                      THEN RemoveAllChildren(fs, name, readDir(fs, name), fuel)
                      ELSE [err |-> "", fs |-> fs]
            IN IF cr.err # "" THEN cr
               ELSE [err |-> "",
                     fs |-> updateEntryInLayer(cr.fs, Tombstone(name, cr.fs.now))]

RemoveAllChildren(fs, name, entries, fuel) ==
    IF entries = << >> THEN [err |-> "", fs |-> fs]
    ELSE LET r == RemoveAllRec(fs, Join(name, Head(entries).name), fuel - 1) IN
         IF r.err # "" THEN r
         ELSE RemoveAllChildren(r.fs, name, Tail(entries), fuel)

\* Faulty variant: an absent path still receives a tombstone.
RemoveAllTombstoningAbsent(fs, p) ==
    IF getEntry(fs, Clean(p)).err # ""
    THEN [err |-> "", fs |-> updateEntryInLayer(fs, Tombstone(Clean(p), fs.now))]
    ELSE RemoveAllRec(fs, p, MaxRecursion)

RemoveAll(fs, p) == RemoveAllRec(fs, p, MaxRecursion)

\* First loop of Rename's directory branch: the base entries at or under oldname.
UnderOld(e, oldname) == e.Name = oldname \/ HasPrefixSlash(e.Name, oldname)

\* Second loop: a live layer entry replaces the collected entry of its name, or is appended.
RECURSIVE renameCollectLayer(_, _, _)
renameCollectLayer(entries, oldname, toRename) ==
    IF entries = << >> THEN toRename
    ELSE LET e == Head(entries)
             hit == {i \in 1..Len(toRename) : toRename[i].Name = e.Name}
             nxt == IF e.Size = TombstoneSize THEN toRename
                    ELSE IF ~UnderOld(e, oldname) THEN toRename
                    ELSE IF hit # {}
                         THEN LET first == CHOOSE i \in hit : \A j \in hit : i <= j
                              IN [toRename EXCEPT ![first] = e]
                    ELSE Append(toRename, e)
         IN renameCollectLayer(Tail(entries), oldname, nxt)

\* strings.Replace(name, oldname, newname, 1) on a name that starts with oldname.
ReplacePrefix(name, oldname, newname) ==
    newname \o SubSeq(name, Len(oldname) + 1, Len(name))

RECURSIVE renameInsert(_, _, _, _)
renameInsert(fs, toRename, oldname, newname) ==
    IF toRename = << >> THEN fs
    ELSE LET e == Head(toRename)
             newEntry == Entry(e.Mode, e.Timestamp, e.Size,
                               ReplacePrefix(e.Name, oldname, newname), e.C4ID, e.Target)
         IN renameInsert(updateEntryInLayer(fs, newEntry), Tail(toRename), oldname, newname)

RECURSIVE renameTombstones(_, _)
renameTombstones(fs, toRename) ==
    IF toRename = << >> THEN fs
    ELSE renameTombstones(updateEntryInLayer(fs, Tombstone(Head(toRename).Name, fs.now)),
                          Tail(toRename))

\* Faulty variant: the destination is not checked; a file rename overwrites it.
RenameOverDestination(fs, oldp, newp) ==
    LET oldname == Normalize(oldp)
        newname == Normalize(newp)
        r == getEntry(fs, oldname)
    IN IF oldname = << >> \/ newname = << >> THEN [err |-> "ErrRoot", fs |-> fs]
       ELSE IF r.err # "" THEN [err |-> r.err, fs |-> fs]
       ELSE LET oldEntry == r.entry
                newEntry == Entry(oldEntry.Mode, oldEntry.Timestamp, oldEntry.Size,
                                  newname, oldEntry.C4ID, oldEntry.Target)
            IN [err |-> "",
                fs |-> updateEntryInLayer(updateEntryInLayer(fs, newEntry),
                                          Tombstone(oldname, fs.now))]

Rename(fs, oldp, newp) ==
    LET oldname == Normalize(oldp)
        newname == Normalize(newp)
        r == getEntry(fs, oldname)
    IN IF oldname = << >> \/ newname = << >> THEN [err |-> "ErrRoot", fs |-> fs]
       ELSE IF r.err # "" THEN [err |-> r.err, fs |-> fs]
       ELSE IF Exists(fs, newname) THEN [err |-> "ErrExist", fs |-> fs]
       ELSE IF IsDir(r.entry)
       THEN LET KeepBase(e) == UnderOld(e, oldname)
                toRename == renameCollectLayer(fs.layer, oldname,
                                               SelectSeq(fs.base, KeepBase))
            IN [err |-> "",
                fs |-> renameTombstones(renameInsert(fs, toRename, oldname, newname),
                                        toRename)]
       ELSE LET oldEntry == r.entry
                newEntry == Entry(oldEntry.Mode, oldEntry.Timestamp, oldEntry.Size,
                                  newname, oldEntry.C4ID, oldEntry.Target)
            IN [err |-> "",
                fs |-> updateEntryInLayer(updateEntryInLayer(fs, newEntry),
                                          Tombstone(oldname, fs.now))]

Chmod(fs, name, mode) ==
    LET r == getEntry(fs, name) IN
    IF r.err # "" THEN [err |-> r.err, fs |-> fs]
    ELSE LET newEntry == Entry(mode, r.entry.Timestamp, r.entry.Size, Clean(name),
                               r.entry.C4ID, r.entry.Target)
         IN [err |-> "", fs |-> updateEntryInLayer(fs, newEntry)]

Chtimes(fs, name, atime, mtime) ==
    LET r == getEntry(fs, name) IN
    IF r.err # "" THEN [err |-> r.err, fs |-> fs]
    ELSE LET newEntry == Entry(r.entry.Mode, mtime, r.entry.Size, Clean(name),
                               r.entry.C4ID, r.entry.Target)
         IN [err |-> "", fs |-> updateEntryInLayer(fs, newEntry)]

Symlink(fs, target, p) ==
    LET name == Clean(p)
        inLayer == ManifestGetEntry(fs.layer, name)
    IN IF inLayer.found /\ inLayer.entry.Size # TombstoneSize
       THEN [err |-> "ErrExist", fs |-> fs]
       ELSE IF ManifestGetEntry(fs.base, name).found THEN [err |-> "ErrExist", fs |-> fs]
       ELSE LET entry == Entry(FileMode(FALSE, TRUE, SymlinkPerm), fs.now, 0, name,
                               NilID, target)
            IN [err |-> "", fs |-> updateEntryInLayer(fs, entry)]

\* ------------------------------------------------------------------------
\* Write session (dehydratingFile)
\* ------------------------------------------------------------------------

NoHandle == [open |-> FALSE]

newDehydratingFile(name, perm) ==
    [open |-> TRUE, name |-> Clean(name), perm |-> perm, buf |-> << >>, pos |-> 0,
     closed |-> FALSE]

HandleWrite(h, bytes) == [h EXCEPT !.buf = @ \o bytes, !.pos = @ + Len(bytes)]

\* Write, WriteString and WriteAt as the caller sees them: the error, the byte
\* count and the handle afterwards.
Write(h, bytes) == [err |-> "", n |-> Len(bytes), handle |-> HandleWrite(h, bytes)]

WriteString(h, str) == Write(h, str)

WriteAt(h, bytes, off) ==
    IF off # h.pos THEN [err |-> "ESEQ", n |-> 0, handle |-> h] ELSE Write(h, bytes)

HandleClose(fs, h, putOK) ==
    IF ~putOK THEN [err |-> "EStore", fs |-> fs]
    ELSE LET stored == [fs EXCEPT !.store = StorePut(fs.store, h.buf)]
             entry == Entry(h.perm, fs.now, Len(h.buf), h.name, c4Identify(h.buf), << >>)
         IN [err |-> "", fs |-> updateEntryInLayer(stored, entry)]

\* ------------------------------------------------------------------------
\* Subtree view (subFS)
\* ------------------------------------------------------------------------

NoView == [open |-> FALSE]

\* io/fs.ValidPath: unrooted, no empty, "." or ".." element, except that the
\* whole name may be ".".
ValidPath(name) ==
    \/ name = <<".">>
    \/ /\ name # << >>
       /\ \A i \in 1..Len(name) : name[i] \notin {"/", ".", "..", ""}

ReadDir(fs, name) == [err |-> "", entries |-> readDir(fs, name)]

\* Sub: the prefix of the view, or the error of the construction.
Sub(fs, dir) ==
    LET d == Normalize(dir) IN
    IF d = << >> THEN [err |-> "", view |-> [open |-> TRUE, prefix |-> d]]
    ELSE LET r == getEntry(fs, d) IN
         IF r.err # "" THEN [err |-> r.err]
         ELSE IF ~IsDir(r.entry) THEN [err |-> "ENOTDIR"]
         ELSE [err |-> "", view |-> [open |-> TRUE, prefix |-> d]]

subOpen(fs, s, name) ==
    IF ~ValidPath(name) THEN [err |-> "ErrInvalid"] ELSE Open(fs, Join(s.prefix, name))

subReadDir(fs, s, name) ==
    IF ~ValidPath(name) THEN [err |-> "ErrInvalid"] ELSE ReadDir(fs, Join(s.prefix, name))

subReadFile(fs, s, name) ==
    IF ~ValidPath(name) THEN [err |-> "ErrInvalid"] ELSE ReadFile(fs, Join(s.prefix, name))

\* Variant of subStat that passes the name to the parent without the prefix.
subStatWithoutPrefix(fs, s, name) ==
    IF ~ValidPath(name) THEN [err |-> "ErrInvalid"] ELSE Stat(fs, name)

subStat(fs, s, name) ==
    IF ~ValidPath(name) THEN [err |-> "ErrInvalid"] ELSE Stat(fs, Join(s.prefix, name))

\* ------------------------------------------------------------------------
\* The reader/writer lock of the FS and the calls in progress
\* ------------------------------------------------------------------------

\* mu: the thread that holds the write lock (0: none) and the threads that
\* hold the read lock.
NoLock == [writer |-> 0, readers |-> {}]

\* No concurrent calls: every operation runs alone from call to return.
NoCalls == [start |-> << >>, th |-> << >>]

\* ------------------------------------------------------------------------
\* Inputs
\* ------------------------------------------------------------------------

\* Paths the calls are made with: a, b, a/b, a/b/a and the root spelling ".".
PathArgs == {<<"a">>, <<"b">>, <<"a", "b">>, <<"a", "b", "a">>, <<".">>}

\* Byte strings written by WriteFile, and the chunk a handle's Write appends.
DataArgs == {<< >>, <<2>>}

ChunkArgs == {<<2>>}

FilePerm == FileMode(FALSE, FALSE, 420)

DirPerm == FileMode(FALSE, FALSE, 493)

ModeArgs == {FileMode(FALSE, FALSE, 384)}

TargetArgs == {<<"a">>, <<"b">>, <<".", "a">>}

MTimeArgs == {50}

ATimeArgs == {60}

\* Longest buffer a write session accumulates.
MaxBuf == 2

\* A base snapshot with a directory a and a file a/b, and the empty base.
BaseTree ==
    << Entry(FileMode(TRUE, FALSE, 493), 0, 0, <<"a">>, NilID, << >>),
       Entry(FileMode(FALSE, FALSE, 420), 0, 1, <<"a", "b">>, c4Identify(<<1>>), << >>) >>

Bases == {<< >>, BaseTree}

DirArgs == {<<".">>, <<"a">>, <<"b">>, <<"a", "b">>}

\* The blobs a base snapshot refers to are in the store.
BlobsOf(b) == IF b = << >> THEN {} ELSE {<<1>>}

\* ------------------------------------------------------------------------
\* State machine: one action per call
\* ------------------------------------------------------------------------

Init ==
    \E b \in Bases :
        LET f == New(b, BlobsOf(b), 1) IN
        /\ base = f.base
        /\ baseIndex = f.baseIndex
        /\ layer = f.layer
        /\ layerIndex = f.layerIndex
        /\ store = f.store
        /\ handle = NoHandle
        /\ view = NoView
        /\ mu = NoLock
        /\ calls = NoCalls
        /\ nops = 0

\* Install the FS value a call leaves behind; a call that changes nothing is a stuttering step.
Step(newfs) ==
    /\ nops < MaxOps
    /\ base' = newfs.base
    /\ baseIndex' = newfs.baseIndex
    /\ layer' = newfs.layer
    /\ layerIndex' = newfs.layerIndex
    /\ store' = newfs.store
    /\ nops' = IF newfs = FS THEN nops ELSE nops + 1

CallWriteFile ==
    /\ \E p \in PathArgs, d \in DataArgs, ok \in BOOLEAN :
           Step(WriteFile(FS, p, d, FilePerm, ok).fs)
    /\ UNCHANGED <<handle, view, mu, calls>>

CallMkdir ==
    /\ \E p \in PathArgs : Step(Mkdir(FS, p, DirPerm).fs)
    /\ UNCHANGED <<handle, view, mu, calls>>

CallMkdirAll ==
    /\ \E p \in PathArgs : Step(MkdirAll(FS, p, DirPerm).fs)
    /\ UNCHANGED <<handle, view, mu, calls>>

CallRemove ==
    /\ \E p \in PathArgs : Step(Remove(FS, p).fs)
    /\ UNCHANGED <<handle, view, mu, calls>>

CallRemoveAll ==
    /\ \E p \in PathArgs : Step(RemoveAll(FS, p).fs)
    /\ UNCHANGED <<handle, view, mu, calls>>

CallRename ==
    /\ \E p \in PathArgs, q \in PathArgs : Step(Rename(FS, p, q).fs)
    /\ UNCHANGED <<handle, view, mu, calls>>

CallChmod ==
    /\ \E p \in PathArgs, m \in ModeArgs : Step(Chmod(FS, p, m).fs)
    /\ UNCHANGED <<handle, view, mu, calls>>

CallChtimes ==
    /\ \E p \in PathArgs, at \in ATimeArgs, mt \in MTimeArgs : Step(Chtimes(FS, p, at, mt).fs)
    /\ UNCHANGED <<handle, view, mu, calls>>

CallSymlink ==
    /\ \E t \in TargetArgs, p \in PathArgs : Step(Symlink(FS, t, p).fs)
    /\ UNCHANGED <<handle, view, mu, calls>>

CallCreate ==
    /\ nops < MaxOps
    /\ ~handle.open
    /\ \E p \in PathArgs : handle' = newDehydratingFile(p, FileMode(FALSE, FALSE, CreatePerm))
    /\ nops' = nops + 1
    /\ UNCHANGED <<base, baseIndex, layer, layerIndex, store, view, mu, calls>>

CallWrite ==
    /\ nops < MaxOps
    /\ handle.open
    /\ Len(handle.buf) < MaxBuf
    /\ \E c \in ChunkArgs : handle' = HandleWrite(handle, c)
    /\ nops' = nops + 1
    /\ UNCHANGED <<base, baseIndex, layer, layerIndex, store, view, mu, calls>>

CallClose ==
    /\ handle.open
    /\ \E ok \in BOOLEAN : Step(HandleClose(FS, handle, ok).fs)
    /\ handle' = [handle EXCEPT !.closed = TRUE]
    /\ UNCHANGED <<view, mu, calls>>

\* Sub(dir): one view is constructed and kept while the parent goes on.
CallSub ==
    /\ nops < MaxOps
    /\ ~view.open
    /\ \E d \in DirArgs : LET r == Sub(FS, d) IN r.err = "" /\ view' = r.view
    /\ nops' = nops + 1
    /\ UNCHANGED <<base, baseIndex, layer, layerIndex, store, handle, mu, calls>>

Next ==
    \/ CallWriteFile
    \/ CallMkdir
    \/ CallMkdirAll
    \/ CallRemove
    \/ CallRemoveAll
    \/ CallRename
    \/ CallChmod
    \/ CallChtimes
    \/ CallSymlink
    \/ CallCreate
    \/ CallWrite
    \/ CallClose
    \/ CallSub

Spec == Init /\ [][Next]_vars

\* ------------------------------------------------------------------------
\* Vocabulary of the properties
\* ------------------------------------------------------------------------

\* Paths the properties look at: the call arguments, the other root spellings,
\* the paths a rename of a to b or of a/b to b produces, and an absolute spelling.
ProbePaths ==
    PathArgs \cup {<< >>, <<"/">>, <<"b", "a">>, <<"b", "b">>, <<"b", "b", "a">>,
                   <<"a", "a">>, <<"/", "a">>}

NonRoot(p) == Normalize(p) # << >>

NamesOf(entries) == {entries[i].Name : i \in 1..Len(entries)}

\* Every path that has an entry somewhere, with the probe paths.
KnownPaths(fs) == ProbePaths \cup NamesOf(fs.layer) \cup NamesOf(fs.base)

\* n = d + "/" + s for a non-empty s.
Under(n, d) == Len(n) > Len(d) /\ SubSeq(n, 1, Len(d)) = d

\* n = d + "/" + c for one component c.
ChildOf(n, d) == Len(n) = Len(d) + 1 /\ SubSeq(n, 1, Len(d)) = d

Suffix(n, d) == SubSeq(n, Len(d) + 1, Len(n))

InLayer(fs, n) == \E i \in 1..Len(fs.layer) : fs.layer[i].Name = n

InBase(fs, n) == \E i \in 1..Len(fs.base) : fs.base[i].Name = n

TombstonedInLayer(fs, n) ==
    \E i \in 1..Len(fs.layer) : fs.layer[i].Name = n /\ fs.layer[i].Size = TombstoneSize

SameContent(e1, e2) ==
    /\ e1.C4ID = e2.C4ID
    /\ e1.Size = e2.Size
    /\ e1.Mode = e2.Mode
    /\ e1.Target = e2.Target

\* ------------------------------------------------------------------------
\* Properties
\* ------------------------------------------------------------------------

\* C1: round trip.  For every non-root path p and every payload d, after
\* WriteFile(p, d) succeeds, ReadFile(p) succeeds and returns exactly d and
\* Stat(p).Size() is len(d).
C1_RoundTrip ==
    \A p \in PathArgs, d \in DataArgs :
        LET w == WriteFile(FS, p, d, FilePerm, TRUE)
            r == ReadFile(w.fs, p)
            st == Stat(w.fs, p)
        IN (NonRoot(p) /\ w.err = "") =>
              /\ r.err = "" /\ r.data = d
              /\ st.err = "" /\ st.info.size = Len(d)

\* C2: copy-on-write isolation.  No call changes the base manifest's entry
\* list or the base index.
C2_BaseUnchanged == [][base' = base /\ baseIndex' = baseIndex]_vars

\* A state where the layer both shadows and tombstones paths of a non-empty base.
C2_Witness ==
    /\ base # << >>
    /\ \E n \in NamesOf(base) : InLayer(FS, n) /\ TombstonedInLayer(FS, n)
    /\ \E n \in NamesOf(base) : InLayer(FS, n) /\ ~TombstonedInLayer(FS, n)

\* C3: lookup precedence.  For a non-root path, getEntry, lstatEntry and Exists
\* answer NotExist when the layer list holds a tombstone at the path, the layer
\* entry when the layer list holds a live entry there, else the base entry if
\* there is one, else NotExist; every root spelling gives a synthetic directory.
C3_LookupPrecedence ==
    \A p \in KnownPaths(FS) :
        LET path == Normalize(p)
            r == getEntry(FS, p)
            l == lstatEntry(FS, p)
            li == {i \in 1..Len(layer) : layer[i].Name = path}
            bi == {i \in 1..Len(base) : base[i].Name = path}
        IN /\ l = r
           /\ Exists(FS, p) = (r.err = "")
           /\ IF path = << >>
              THEN r.err = "" /\ IsDir(r.entry) /\ r.entry.Name = << >>
              ELSE /\ (\E i \in li : layer[i].Size = TombstoneSize) => r.err = "ErrNotExist"
                   /\ \A i \in li : layer[i].Size # TombstoneSize =>
                          r.err = "" /\ r.entry = layer[i]
                   /\ (li = {} /\ bi # {}) => r.err = "" /\ \E i \in bi : r.entry = base[i]
                   /\ (li = {} /\ bi = {}) => r.err = "ErrNotExist"

\* A base path that the layer tombstones is NotExist, and another base path
\* that the layer overwrites answers with the layer entry.
C3_Witness ==
    /\ \E n \in NamesOf(base) : TombstonedInLayer(FS, n) /\ getEntry(FS, n).err = "ErrNotExist"
    /\ \E n \in NamesOf(base) :
          /\ InLayer(FS, n)
          /\ getEntry(FS, n).err = ""
          /\ getEntry(FS, n).entry # baseIndex[n]

\* C4: Flatten yields at most one entry per path, the layer's entry where the
\* layer has a live one, and no tombstone.
C4_FlattenOnePerPath ==
    LET m == Flatten(FS) IN
    /\ \A i, j \in 1..Len(m) : m[i].Name = m[j].Name => i = j
    /\ \A i \in 1..Len(m) : m[i].Size # TombstoneSize
    /\ \A i \in 1..Len(m) :
          (InLayer(FS, m[i].Name) /\ ~TombstonedInLayer(FS, m[i].Name)) =>
              m[i] = layerIndex[m[i].Name]

\* C5: tombstone correctness.  After Remove(p) succeeds on a path that exists
\* only in base, Exists(p) is false, p's basename is not in ReadDir of its
\* parent, Flatten has no entry for p, and base still has p's entry.
C5_TombstoneCorrect ==
    \A p \in PathArgs :
        LET r == Remove(FS, p)
            listing == readDir(r.fs, Dir(Normalize(p)))
            m == Flatten(r.fs)
        IN (NonRoot(p) /\ InBase(FS, Normalize(p)) /\ ~InLayer(FS, Normalize(p)) /\ r.err = "") =>
              /\ ~Exists(r.fs, p)
              /\ \A i \in 1..Len(listing) : listing[i].name # Base(Normalize(p))
              /\ \A i \in 1..Len(m) : m[i].Name # Normalize(p)
              /\ InBase(r.fs, Normalize(p))
              /\ BaseCopy(r.fs) = base

\* Remove succeeds on a base-only path whose parent directory lists it beforehand.
C5_Witness ==
    \E p \in PathArgs :
        /\ InBase(FS, p) /\ ~InLayer(FS, p)
        /\ \E i \in 1..Len(readDir(FS, Dir(p))) : readDir(FS, Dir(p))[i].name = Base(p)
        /\ Remove(FS, p).err = ""
        /\ TombstonedInLayer(Remove(FS, p).fs, p)

\* A live direct child of directory d in the composed view: live in the layer
\* list, or present in the base list and not tombstoned in the layer list.
HasLiveChild(fs, d) ==
    \E n \in NamesOf(fs.layer) \cup NamesOf(fs.base) :
        /\ ChildOf(n, d)
        /\ \/ InLayer(fs, n) /\ ~TombstonedInLayer(fs, n)
           \/ InBase(fs, n) /\ ~TombstonedInLayer(fs, n)

\* C6: directory non-empty guard.  Remove(d) on a non-root directory d with a
\* live direct child fails with directory-not-empty and changes nothing;
\* Remove(d) succeeds, tombstoning d, when d has no live child.
C6_NonEmptyGuard ==
    \A p \in PathArgs :
        LET d == Normalize(p)
            r == Remove(FS, p)
        IN (NonRoot(p) /\ IsDirPath(FS, p)) =>
              IF HasLiveChild(FS, d)
              THEN r.err = "ENOTEMPTY" /\ r.fs = FS
              ELSE r.err = "" /\ TombstonedInLayer(r.fs, d) /\ ~Exists(r.fs, d)

\* A directory whose only child, a base entry, is tombstoned: Remove succeeds;
\* and a state where a directory still has a live child and Remove is refused.
C6_Witness ==
    \/ \E p \in PathArgs :
          /\ NonRoot(p) /\ IsDirPath(FS, p)
          /\ \E n \in NamesOf(base) : ChildOf(n, p) /\ TombstonedInLayer(FS, n)
          /\ ~HasLiveChild(FS, p)
          /\ Remove(FS, p).err = ""
    \/ /\ nops = MaxOps
       /\ \E p \in PathArgs :
             /\ NonRoot(p) /\ IsDirPath(FS, p) /\ HasLiveChild(FS, p)
             /\ InLayer(FS, p)
             /\ Remove(FS, p).err = "ENOTEMPTY"

\* C7: RemoveAll removes all descendants.  After RemoveAll(d) succeeds on a
\* non-root directory d, neither d nor any path under d exists.
C7_RemoveAllDescendants ==
    \A p \in PathArgs :
        LET d == Normalize(p)
            r == RemoveAll(FS, p)
        IN (NonRoot(p) /\ IsDirPath(FS, p) /\ r.err = "") =>
              /\ ~Exists(r.fs, d)
              /\ \A n \in KnownPaths(r.fs) : Under(n, d) => ~Exists(r.fs, n)

\* C8: RemoveAll on a path absent from the composed view succeeds and leaves
\* the file system unchanged (no tombstone is inserted); a second RemoveAll of
\* a non-root path, at a later time, gives the result and state of the first.
C8_RemoveAllAbsent ==
    \A p \in ProbePaths :
        LET r1 == RemoveAll(FS, p)
            later == [r1.fs EXCEPT !.now = @ + 1]
            r2 == RemoveAll(later, p)
        IN /\ ~Exists(FS, p) => (r1.err = "" /\ r1.fs = FS)
           /\ (NonRoot(p) /\ r1.err = "") =>
                 /\ r2.err = ""
                 /\ r2.fs.layer = r1.fs.layer
                 /\ r2.fs.layerIndex = r1.fs.layerIndex
                 /\ r2.fs.base = r1.fs.base
                 /\ r2.fs.store = r1.fs.store

\* RemoveAll is a no-op on a path with no entry at all and on a tombstoned
\* path, and a RemoveAll that did insert tombstones is repeated without effect.
C8_Witness ==
    /\ \E p \in PathArgs : ~InLayer(FS, p) /\ ~InBase(FS, p) /\ RemoveAll(FS, p).fs = FS
    /\ \E p \in PathArgs : TombstonedInLayer(FS, p) /\ RemoveAll(FS, p).fs = FS
    /\ \E p \in PathArgs :
          /\ IsDirPath(FS, p) /\ HasLiveChild(FS, p)
          /\ RemoveAll(FS, p).err = ""
          /\ RemoveAll(FS, p).fs.layer # layer

\* C9: Rename moves content unchanged.  After Rename(old, new) succeeds: for a
\* file, new carries old's mode, timestamp, size, fingerprint and target and
\* old does not exist; for a directory, every live descendant old + s is live
\* at new + s with the same fingerprint, size, mode and target, and neither
\* old nor any path under old exists.
C9_RenameMoves ==
    \A oldp \in PathArgs, newp \in PathArgs :
        LET old == Normalize(oldp)
            new == Normalize(newp)
            e == getEntry(FS, old)
            r == Rename(FS, oldp, newp)
            moved == getEntry(r.fs, new)
        IN r.err = "" =>
              IF ~IsDir(e.entry)
              THEN /\ moved.err = ""
                   /\ SameContent(moved.entry, e.entry)
                   /\ moved.entry.Timestamp = e.entry.Timestamp
                   /\ ~Exists(r.fs, old)
              ELSE /\ \A n \in KnownPaths(FS) :
                          (Under(n, old) /\ Exists(FS, n)) =>
                              LET m == getEntry(r.fs, new \o Suffix(n, old)) IN
                              m.err = "" /\ SameContent(m.entry, getEntry(FS, n).entry)
                   /\ ~Exists(r.fs, old)
                   /\ \A n \in KnownPaths(r.fs) : Under(n, old) => ~Exists(r.fs, n)

\* C10: Rename failure modes.  For non-root old and new, Rename fails with
\* NotExist when old is absent, and with AlreadyExists when old is present and
\* new is present; in both cases nothing changes.
C10_RenameFailures ==
    \A oldp \in ProbePaths, newp \in ProbePaths :
        LET r == Rename(FS, oldp, newp) IN
        (NonRoot(oldp) /\ NonRoot(newp)) =>
            /\ ~Exists(FS, oldp) => (r.err = "ErrNotExist" /\ r.fs = FS)
            /\ (Exists(FS, oldp) /\ Exists(FS, newp)) => (r.err = "ErrExist" /\ r.fs = FS)
            /\ (Exists(FS, oldp) /\ ~Exists(FS, newp)) => r.err = ""

\* Both failures occur in a state whose layer holds live entries and tombstones.
C10_Witness ==
    /\ \E oldp \in PathArgs, newp \in PathArgs :
          /\ oldp # newp /\ NonRoot(oldp) /\ NonRoot(newp)
          /\ InLayer(FS, Normalize(newp)) /\ Exists(FS, oldp)
          /\ Rename(FS, oldp, newp).err = "ErrExist"
    /\ \E oldp \in PathArgs, newp \in PathArgs :
          /\ TombstonedInLayer(FS, Normalize(oldp)) /\ NonRoot(newp)
          /\ Rename(FS, oldp, newp).err = "ErrNotExist"

\* The spellings of the root: "", "." and "/".
RootSpellings == {<< >>, <<".">>, <<"/">>}

\* C11: root operations are rejected.  For every root spelling r and every
\* path x, Mkdir(r), Remove(r), Rename(r, x) and Rename(x, r) fail and change
\* nothing, while Stat(r) succeeds and reports a directory and ReadDir(r)
\* gives the listing of the root.
C11_RootRejected ==
    \A r \in RootSpellings :
        /\ Mkdir(FS, r, DirPerm).err # "" /\ Mkdir(FS, r, DirPerm).fs = FS
        /\ Remove(FS, r).err # "" /\ Remove(FS, r).fs = FS
        /\ \A x \in ProbePaths :
              /\ Rename(FS, r, x).err # "" /\ Rename(FS, r, x).fs = FS
              /\ Rename(FS, x, r).err # "" /\ Rename(FS, x, r).fs = FS
        /\ Stat(FS, r).err = "" /\ Stat(FS, r).info.isDir
        /\ Open(FS, r).err = ""
        /\ readDir(FS, r) = readDir(FS, << >>)

\* The root calls are refused in a state whose layer holds live entries and a
\* tombstone, and whose root directory lists at least one child.
C11_Witness ==
    /\ \E i \in 1..Len(layer) : layer[i].Size = TombstoneSize
    /\ \E i \in 1..Len(layer) : layer[i].Size # TombstoneSize
    /\ Len(readDir(FS, <<".">>)) > 0
    /\ Remove(FS, <<"/">>).err = "ErrRoot"
    /\ Mkdir(FS, <<".">>, DirPerm).err = "ErrExist"
    /\ \E x \in PathArgs : Exists(FS, x) /\ Rename(FS, x, << >>).err = "ErrRoot"

\* C12: the root is never stored.  In every reachable state the layer holds no
\* entry, live or tombstone, whose path normalizes to the root.
C12_RootNeverStored ==
    \A i \in 1..Len(layer) : Normalize(layer[i].Name) # << >>

\* ------------------------------------------------------------------------
\* Symlink chains: a regular file "0" and links "1" -> "0", "2" -> "1", ...
\* built by Symlink calls, with an optional cyclic pair x -> y, y -> x.
\* nops is the length of the chain.
\* ------------------------------------------------------------------------

\* Longest chain built: two links more than the hop budget of Stat.
MaxChain == 42

LinkName(i) == <<ToString(i)>>

ChainData == {<< >>, <<1>>, <<2>>}

ChainInit ==
    /\ \E d \in ChainData :
          LET fs0 == WriteFile(New(<< >>, {}, 1), LinkName(0), d, FilePerm, TRUE).fs IN
          /\ base = fs0.base
          /\ baseIndex = fs0.baseIndex
          /\ layer = fs0.layer
          /\ layerIndex = fs0.layerIndex
          /\ store = fs0.store
    /\ handle = NoHandle
    /\ view = NoView
    /\ mu = NoLock
    /\ calls = NoCalls
    /\ nops = 0

Install(newfs) ==
    /\ base' = newfs.base
    /\ baseIndex' = newfs.baseIndex
    /\ layer' = newfs.layer
    /\ layerIndex' = newfs.layerIndex
    /\ store' = newfs.store
    /\ UNCHANGED <<handle, view, mu, calls>>

\* Symlink(previous head, next name): the chain grows by one link.
ChainLink ==
    /\ nops < MaxChain
    /\ LET r == Symlink(FS, LinkName(nops), LinkName(nops + 1)) IN
       r.err = "" /\ Install(r.fs)
    /\ nops' = nops + 1

\* Symlink("y", "x") or Symlink("x", "y"): one half of the cyclic pair, made
\* before the chain grows.
ChainLoop ==
    /\ nops = 0
    /\ \E pair \in {<< <<"x">>, <<"y">> >>, << <<"y">>, <<"x">> >>} :
          LET r == Symlink(FS, pair[1], pair[2]) IN
          r.err = "" /\ Install(r.fs)
    /\ UNCHANGED nops

ChainNext == ChainLink \/ ChainLoop

ChainSpec == ChainInit /\ [][ChainNext]_vars

\* C13: symlink bound.  With hop budget B (40 for Stat, Open and ReadFile) a
\* chain of k symlinks ending at a regular file resolves to that file's entry
\* for every k <= B, and a chain with k > B or a cyclic pair of symlinks
\* fails with the too-many-levels error.
C13_SymlinkBound ==
    LET k == nops
        head == LinkName(k)
        file == layerIndex[LinkName(0)]
    IN /\ \A B \in 1..DefaultDepth :
             LET r == resolveSymlink(FS, head, B) IN
             IF k <= B THEN r.err = "" /\ r.entry = file ELSE r.err = "ELOOP"
       /\ IF k <= DefaultDepth
          THEN /\ Stat(FS, head).err = "" /\ Stat(FS, head).info.size = file.Size
               /\ Open(FS, head).err = ""
               /\ ReadFile(FS, head).err = ""
          ELSE /\ Stat(FS, head).err = "ELOOP"
               /\ Open(FS, head).err = "ELOOP"
               /\ ReadFile(FS, head).err = "ELOOP"
       /\ (InLayer(FS, <<"x">>) /\ InLayer(FS, <<"y">>)) =>
             /\ Stat(FS, <<"x">>).err = "ELOOP"
             /\ Open(FS, <<"y">>).err = "ELOOP"
             /\ ReadFile(FS, <<"x">>).err = "ELOOP"

\* The path a link at l with target t points to: t itself when t is absolute
\* or l has no directory part, else t relative to l's directory.
LinkTarget(l, t) ==
    IF IsAbs(t) \/ Dir(l) = <<".">> \/ Dir(l) = << >> THEN t ELSE Join(Dir(l), t)

\* The live symlink entries of the composed view, read from the entry lists.
SymlinkEntries(fs) ==
    {fs.layer[i] : i \in {j \in 1..Len(fs.layer) :
                            fs.layer[j].Mode.symlink /\ fs.layer[j].Size # TombstoneSize}}
    \cup {fs.base[i] : i \in {j \in 1..Len(fs.base) :
                                fs.base[j].Mode.symlink /\ ~InLayer(fs, fs.base[j].Name)}}

LookupEntries(fs) ==
    {getEntry(fs, p).entry : p \in {q \in KnownPaths(fs) : getEntry(fs, q).err = ""}}

\* C15: GC set correctness.  In every reachable state ReferencedIDs() is
\* exactly the set of fingerprints of the entries that lookup returns for some
\* path and that are non-directories of size > 0; writing the same content to
\* a second path does not increase its cardinality.
C15_GCSet ==
    /\ ReferencedIDs(FS) =
          {e.C4ID : e \in {x \in LookupEntries(FS) : ~IsDir(x) /\ x.Size > 0}}
    /\ \A p \in PathArgs, q \in PathArgs, d \in DataArgs :
          LET w1 == WriteFile(FS, p, d, FilePerm, TRUE)
              w2 == WriteFile(w1.fs, q, d, FilePerm, TRUE)
          IN Cardinality(ReferencedIDs(w2.fs)) <= Cardinality(ReferencedIDs(w1.fs))

\* C16: writes after finalize fail.  Once Close has returned on a handle
\* obtained from Create, every later Write, WriteString or WriteAt on that
\* handle returns an error.
C16_WritesAfterCloseFail ==
    (handle.open /\ handle.closed) =>
        \A c \in ChunkArgs :
            /\ Write(handle, c).err # ""
            /\ WriteString(handle, c).err # ""
            /\ WriteAt(handle, c, handle.pos).err # ""

\* C17: write session equivalence.  Create and Write leave the file system
\* unchanged; after the writes, Close gives the layer entry at p the
\* fingerprint, size and type that WriteFile(p, b1 ++ ... ++ bn, 0644) gives
\* it, and ReadFile(p) returns the concatenation.
C17_WriteSession ==
    /\ [](( handle.open /\ ~handle.closed) =>
            \A c1 \in DataArgs, c2 \in DataArgs :
                LET h == Write(Write(handle, c1).handle, c2).handle
                    data == handle.buf \o c1 \o c2
                    c == HandleClose(FS, h, TRUE)
                    w == WriteFile(FS, handle.name, data,
                                   FileMode(FALSE, FALSE, CreatePerm), TRUE)
                IN /\ c.err = ""
                   /\ SameContent(c.fs.layerIndex[handle.name], w.fs.layerIndex[handle.name])
                   /\ ReadFile(c.fs, handle.name) = [err |-> "", data |-> data])
    /\ [][(handle' # handle /\ handle'.open /\ ~handle'.closed) =>
              UNCHANGED <<base, baseIndex, layer, layerIndex, store>>]_vars

\* C18: Mkdir(p) on a path that is live in the composed view fails with
\* AlreadyExists and changes nothing; a successful Mkdir(p, perm) appends
\* exactly one entry at p, a directory of size 0 with no fingerprint, and
\* IsDir(p) is true afterwards.
C18_Mkdir ==
    \A p \in ProbePaths :
        LET name == Normalize(p)
            m == Mkdir(FS, p, DirPerm)
            e == Entry(FileMode(TRUE, FALSE, DirPerm.perm), FS.now, 0, name, NilID, << >>)
        IN /\ Exists(FS, p) => (m.err = "ErrExist" /\ m.fs = FS)
           /\ m.err \in {"", "ErrExist"}
           /\ m.err # "" => m.fs = FS
           /\ m.err = "" =>
                 /\ m.fs.layer = Append(layer, e)
                 /\ m.fs.layerIndex = MapPut(layerIndex, name, e)
                 /\ m.fs.base = base /\ m.fs.store = store
                 /\ IsDirPath(m.fs, p)

\* Mkdir is refused on a live layer entry and on a live base entry, and
\* succeeds on a fresh path, in a state the calls have already changed.
C18_Witness ==
    /\ nops = MaxOps
    /\ \E p \in PathArgs : InLayer(FS, p) /\ Exists(FS, p) /\ Mkdir(FS, p, DirPerm).err = "ErrExist"
    /\ \E p \in PathArgs : InBase(FS, p) /\ ~InLayer(FS, p) /\ Mkdir(FS, p, DirPerm).err = "ErrExist"
    /\ \E p \in PathArgs : Mkdir(FS, p, DirPerm).err = "" /\ IsDirPath(Mkdir(FS, p, DirPerm).fs, p)

\* The proper ancestors of a relative path: a/b/c has a and a/b.
Ancestors(p) == {SubSeq(p, 1, k) : k \in 1..(Len(p) - 1)}

\* C19: MkdirAll(p).  On a live directory it succeeds and changes nothing; on
\* a live non-directory it fails; otherwise, when no ancestor is a live
\* non-directory, it succeeds, also when p or an ancestor was removed earlier;
\* after success p and every ancestor of p are live directories.
C19_MkdirAll ==
    \A p \in PathArgs :
        LET name == Normalize(p)
            r == MkdirAll(FS, p, DirPerm)
            blocked == \E a \in Ancestors(name) : Exists(FS, a) /\ ~IsDirPath(FS, a)
        IN /\ IsDirPath(FS, p) => (r.err = "" /\ r.fs = FS)
           /\ (Exists(FS, p) /\ ~IsDirPath(FS, p)) => (r.err # "" /\ r.fs = FS)
           /\ (~Exists(FS, p) /\ ~blocked) => r.err = ""
           /\ r.err = "" =>
                 /\ IsDirPath(r.fs, p)
                 /\ \A a \in Ancestors(name) : IsDirPath(r.fs, a)

\* C20: Chmod and Chtimes.  On an existing non-root path Chmod(p, m)
\* re-inserts p's entry with only the permission bits changed and
\* Chtimes(p, a, t) with only the timestamp changed, set to t; fingerprint,
\* size and target are the ones lookup returned before.  On an absent path
\* both fail with NotExist and change nothing.
C20_ChmodChtimes ==
    \A p \in PathArgs, m \in ModeArgs, at \in ATimeArgs, mt \in MTimeArgs :
        LET old == getEntry(FS, p)
            c == Chmod(FS, p, m)
            t == Chtimes(FS, p, at, mt)
        IN NonRoot(p) =>
              IF old.err = ""
              THEN /\ c.err = ""
                   /\ getEntry(c.fs, p).err = ""
                   /\ getEntry(c.fs, p).entry =
                         [old.entry EXCEPT !.Mode.perm = m.perm, !.Name = Normalize(p)]
                   /\ t.err = ""
                   /\ getEntry(t.fs, p).err = ""
                   /\ getEntry(t.fs, p).entry =
                         [old.entry EXCEPT !.Timestamp = mt, !.Name = Normalize(p)]
              ELSE /\ c.err = "ErrNotExist" /\ c.fs = FS
                   /\ t.err = "ErrNotExist" /\ t.fs = FS

\* ------------------------------------------------------------------------
\* Subtree view
\* ------------------------------------------------------------------------

\* Valid relative names handed to a view.
ViewNames == {<<".">>, <<"a">>, <<"b">>, <<"a", "b">>, <<"b", "a">>}

\* dir joined with name, written out: dir, a slash, name; "." names dir itself.
DirJoined(d, n) ==
    IF n = <<".">> THEN (IF d = << >> THEN <<".">> ELSE d) ELSE d \o n

\* C21: Sub(dir) fails at construction exactly when dir is not the root and
\* the lookup of dir fails or yields a non-directory; for a constructed
\* view, in the state of construction and in every later state of the
\* parent, Open, Stat, ReadFile and ReadDir on a valid relative name return
\* what the parent returns for dir joined with name.
C21_SubtreeView ==
    /\ \A d \in ProbePaths :
          (Sub(FS, d).err # "") <=>
              /\ Normalize(d) # << >>
              /\ LET r == getEntry(FS, d) IN r.err # "" \/ ~IsDir(r.entry)
    /\ view.open =>
          \A n \in ViewNames :
             /\ ValidPath(n)
             /\ subOpen(FS, view, n) = Open(FS, DirJoined(view.prefix, n))
             /\ subStat(FS, view, n) = Stat(FS, DirJoined(view.prefix, n))
             /\ subReadFile(FS, view, n) = ReadFile(FS, DirJoined(view.prefix, n))
             /\ subReadDir(FS, view, n) = ReadDir(FS, DirJoined(view.prefix, n))

\* A view on "a" whose directory was replaced by a file after construction,
\* and which still answers for the joined paths.
C21_Witness ==
    /\ view.open
    /\ view.prefix = <<"a">>
    /\ ~IsDirPath(FS, <<"a">>)
    /\ subStat(FS, view, <<".">>).err = ""
    /\ subReadFile(FS, view, <<"b">>).err = ""

\* ------------------------------------------------------------------------
\* Layer index and layer list
\* ------------------------------------------------------------------------

\* C22: in every reachable state the layer list holds at most one entry per
\* path, and the layer index maps a path to an entry exactly when the list
\* holds an entry with that path, and that entry is the one in the list.
C22_LayerIndexConsistent ==
    /\ \A i, j \in 1..Len(layer) : layer[i].Name = layer[j].Name => i = j
    /\ DOMAIN layerIndex = {layer[i].Name : i \in 1..Len(layer)}
    /\ \A i \in 1..Len(layer) : layerIndex[layer[i].Name] = layer[i]

\* Two changing calls on an empty base have left a single layer entry: the
\* second call replaced the entry of the first.
C22_Witness ==
    /\ base = << >>
    /\ nops = 2
    /\ handle = NoHandle
    /\ ~view.open
    /\ Len(layer) = 1
    /\ layerIndex[layer[1].Name] = layer[1]

\* ------------------------------------------------------------------------
\* Concurrent calls: every call is cut where the code takes or releases mu,
\* and the steps of updateEntryInLayer under the write lock are single steps.
\* ------------------------------------------------------------------------

\* Number of concurrent writers to one path.
MaxWriters == 2

\* sync.RWMutex: Lock waits until nobody holds mu, RLock until no writer does.
CanLockAlways(m) == TRUE

CanLock(m) == m.writer = 0 /\ m.readers = {}

CanRLockAlways(m) == TRUE

CanRLock(m) == m.writer = 0

\* filepath.Match on component sequences: "*" stands for one component.
Match(pattern, path) ==
    /\ Len(pattern) = Len(path)
    /\ \A i \in 1..Len(pattern) : pattern[i] = "*" \/ pattern[i] = path[i]

\* First loop of Glob: first occurrence of each layer name; tombstones are
\* remembered, live names collected.
RECURSIVE globLayer(_, _)
globLayer(entries, acc) ==
    IF entries = << >> THEN acc
    ELSE LET e == Head(entries)
             nxt == IF e.Name \in acc.seen THEN acc
                    ELSE IF e.Size = TombstoneSize
                         THEN [acc EXCEPT !.seen = @ \cup {e.Name},
                                          !.tombstones = @ \cup {e.Name}]
                         ELSE [acc EXCEPT !.seen = @ \cup {e.Name},
                                          !.allPaths = Append(@, e.Name)]
         IN globLayer(Tail(entries), nxt)

\* Second loop of Glob.
RECURSIVE globBase(_, _)
globBase(entries, acc) ==
    IF entries = << >> THEN acc
    ELSE LET e == Head(entries)
             nxt == IF e.Name \notin acc.seen /\ e.Name \notin acc.tombstones
                    THEN [acc EXCEPT !.seen = @ \cup {e.Name},
                                     !.allPaths = Append(@, e.Name)]
                    ELSE acc
         IN globBase(Tail(entries), nxt)

Glob(fs, pattern) ==
    LET a1 == globLayer(fs.layer, [seen |-> {}, tombstones |-> {}, allPaths |-> << >>])
        allPaths == globBase(fs.base, a1).allPaths
        Matched(path) == Match(pattern, path)
    IN [err |-> "", matches |-> SelectSeq(allPaths, Matched)]

\* The entries Rename hands to updateEntryInLayer, in order, once it holds the
\* lock: the entries at the new paths, then the tombstones of the old paths.
renameQueue(fs, oldEntry, oldname, newname) ==
    IF IsDir(oldEntry)
    THEN LET KeepBase(e) == UnderOld(e, oldname)
             toRename == renameCollectLayer(fs.layer, oldname, SelectSeq(fs.base, KeepBase))
         IN [i \in 1..Len(toRename) |->
                Entry(toRename[i].Mode, toRename[i].Timestamp, toRename[i].Size,
                      ReplacePrefix(toRename[i].Name, oldname, newname),
                      toRename[i].C4ID, toRename[i].Target)]
            \o [i \in 1..Len(toRename) |-> Tombstone(toRename[i].Name, fs.now)]
    ELSE << Entry(oldEntry.Mode, oldEntry.Timestamp, oldEntry.Size, newname,
                  oldEntry.C4ID, oldEntry.Target),
            Tombstone(oldname, fs.now) >>

NoEntry == Entry(FileMode(FALSE, FALSE, 0), 0, 0, << >>, NilID, << >>)

WriterOps == {"WriteFile", "Close"}

ReaderOps == {"getEntry", "lstatEntry", "ReadDir", "Glob", "Flatten", "ReferencedIDs",
              "Base", "Layer"}

\* Calls that look the entry up under the read lock before they take the
\* write lock (Remove, Chmod, Chtimes), and calls that take the write lock
\* first and do everything under it (Mkdir, Symlink).
CheckingOps == {"Remove", "Chmod", "Chtimes"}

LockingOps == {"Mkdir", "Symlink"}

\* A call that has not started: its arguments and the place it starts at.
NewCall(op, name, newname, data) ==
    [op |-> op, name |-> name, newname |-> newname, data |-> data,
     mode |-> FileMode(FALSE, FALSE, 0), mtime |-> 0,
     pc |-> IF op \in WriterOps THEN "put"
            ELSE IF op = "Rename" THEN "checkOld"
            ELSE IF op \in CheckingOps THEN "check"
            ELSE IF op = "RemoveAll" THEN "enter"
            ELSE IF op \in LockingOps THEN "lock" ELSE "rlock",
     queue |-> << >>, entry |-> NoEntry, err |-> "", seen |-> << >>]

\* Mkdir(name, perm), Chmod(name, mode) and Chtimes(name, atime, mtime) as
\* calls; Symlink(target, name) carries its target in the field newname.
NewModeCall(op, name, mode) == [NewCall(op, name, << >>, << >>) EXCEPT !.mode = mode]

\* RemoveAll(name) as a call: the field seen holds its stack of frames, one
\* for each nested RemoveAll, the innermost last; a frame is the cleaned name
\* and the child paths still to visit.
NewFrame(name) == [name |-> Clean(name), todo |-> << >>]

NewWalkCall(name) ==
    [NewCall("RemoveAll", name, << >>, << >>) EXCEPT !.seen = <<NewFrame(name)>>]

NewTimeCall(op, name, mtime) == [NewCall(op, name, << >>, << >>) EXCEPT !.mtime = mtime]

\* What a reading call returns on the file system value it reads.
Observe(op, fs, name) ==
    CASE op = "getEntry" -> getEntry(fs, name)
      [] op = "lstatEntry" -> lstatEntry(fs, name)
      [] op = "Base" -> BaseCopy(fs)
      [] op = "Layer" -> LayerCopy(fs)
      [] op = "ReadDir" -> ReadDir(fs, name)
      [] op = "Glob" -> Glob(fs, name)
      [] op = "Flatten" -> Flatten(fs)
      [] op = "ReferencedIDs" -> ReferencedIDs(fs)

\* The file systems the concurrent calls start on. The base tree alone, and
\* the base tree with a/a and b written to the layer:
StartPlain == New(BaseTree, BlobsOf(BaseTree), 1)

StartLayered ==
    WriteFile(WriteFile(StartPlain, <<"a", "a">>, <<2>>, FilePerm, TRUE).fs,
              <<"b">>, << >>, FilePerm, TRUE).fs

\* The base tree with an entry c/b written although no directory c exists.
StartOrphan == WriteFile(StartPlain, <<"c", "b">>, <<2>>, FilePerm, TRUE).fs

ConcStarts == {StartPlain, StartLayered, StartOrphan}

\* Two or more writers to the path a/a.
WriterCalls ==
    {NewCall(op, <<"a", "a">>, << >>, d) : op \in WriterOps, d \in DataArgs}

WriterScenarios ==
    {[start |-> s, th |-> w] : s \in ConcStarts, w \in [1..MaxWriters -> WriterCalls]}

\* Rename(a/a, c) or Rename(a, c) next to Rename(b, c), a rename of the same
\* source to d, or WriteFile(c).
RenameScenarios ==
    {[start |-> StartLayered,
      th |-> <<NewCall("Rename", old, <<"c">>, << >>), other>>] :
        old \in {<<"a", "a">>, <<"a">>},
        other \in {NewCall("Rename", <<"b">>, <<"c">>, << >>),
                   NewCall("Rename", <<"a", "a">>, <<"d">>, << >>),
                   NewCall("Rename", <<"a">>, <<"d">>, << >>),
                   NewCall("WriteFile", <<"c">>, << >>, << >>)}}

ReaderCalls ==
    {NewCall("getEntry", p, << >>, << >>) :
         p \in {<<"a">>, <<"a", "a">>, <<"a", "b">>, <<"c">>, <<"c", "a">>, <<"c", "b">>}}
    \cup {NewCall("ReadDir", p, << >>, << >>) : p \in {<<".">>, <<"a">>, <<"c">>}}
    \cup {NewCall("Glob", p, << >>, << >>) : p \in {<<"*">>, <<"*", "*">>}}
    \cup {NewCall("lstatEntry", p, << >>, << >>) : p \in {<<"a", "b">>, <<"c">>}}
    \cup {NewCall("Flatten", << >>, << >>, << >>),
          NewCall("ReferencedIDs", << >>, << >>, << >>),
          NewCall("Base", << >>, << >>, << >>),
          NewCall("Layer", << >>, << >>, << >>)}

\* The directory rename Rename(a, c) next to one reading call.
ReaderScenarios ==
    {[start |-> s, th |-> <<NewCall("Rename", <<"a">>, <<"c">>, << >>), r>>] :
        s \in ConcStarts, r \in ReaderCalls}

\* The same reading call made twice, with no mutation at all.
ReadOnlyScenarios ==
    {[start |-> s, th |-> <<r, r>>] : s \in ConcStarts, r \in ReaderCalls}

\* The base tree with the file a/b removed, and with the empty directory c.
StartRemoved == Remove(StartPlain, <<"a", "b">>).fs

StartEmptyDir == Mkdir(StartPlain, <<"c">>, DirPerm).fs

\* Two Remove calls on the same path: the file a/b, the directory a, the
\* empty directory c.
RemoveScenarios ==
    {[start |-> s, th |-> <<NewCall("Remove", p, << >>, << >>),
                            NewCall("Remove", p, << >>, << >>)>>] :
        s \in ConcStarts \cup {StartEmptyDir}, p \in {<<"a", "b">>, <<"a">>, <<"c">>}}

\* Two creating calls on the same path: Mkdir and Mkdir, Symlink and
\* Symlink, or one of each.
CreateCalls(p) ==
    {NewModeCall("Mkdir", p, DirPerm)}
    \cup {NewCall("Symlink", p, t, << >>) : t \in {<<"a">>, <<"b">>}}

CreateScenarios ==
    {[start |-> s, th |-> <<c1, c2>>] :
        s \in ConcStarts \cup {StartRemoved},
        c1 \in CreateCalls(<<"c">>) \cup CreateCalls(<<"a", "b">>),
        c2 \in CreateCalls(<<"c">>) \cup CreateCalls(<<"a", "b">>)}

\* Chmod or Chtimes on a/b next to WriteFile or Remove on a/b.
MetaCalls(p) ==
    {NewModeCall("Chmod", p, m) : m \in ModeArgs}
    \cup {NewTimeCall("Chtimes", p, t) : t \in MTimeArgs}

MetaScenarios ==
    {[start |-> s, th |-> <<c1, c2>>] :
        s \in ConcStarts,
        c1 \in MetaCalls(<<"a", "b">>),
        c2 \in {NewCall("WriteFile", <<"a", "b">>, << >>, <<2>>),
                 NewCall("Remove", <<"a", "b">>, << >>, << >>)}}

\* The base tree with a file written at the path ".".
StartDot == WriteFile(StartPlain, <<".">>, <<2>>, FilePerm, TRUE).fs

\* RemoveAll of a, of c or of "." next to a Flatten or a write.
WalkScenarios ==
    {[start |-> s, th |-> <<NewWalkCall(p), c>>] :
        s \in ConcStarts \cup {StartDot},
        p \in {<<"a">>, <<"c">>, <<".">>},
        c \in {NewCall("Flatten", << >>, << >>, << >>),
                NewCall("WriteFile", <<"a", "a">>, << >>, <<2>>)}}

ConcInit ==
    /\ calls \in WriterScenarios \cup RenameScenarios \cup ReaderScenarios
                \cup ReadOnlyScenarios \cup RemoveScenarios \cup CreateScenarios
                \cup MetaScenarios \cup WalkScenarios
    /\ base = calls.start.base
    /\ baseIndex = calls.start.baseIndex
    /\ layer = calls.start.layer
    /\ layerIndex = calls.start.layerIndex
    /\ store = calls.start.store
    /\ handle = NoHandle
    /\ view = NoView
    /\ mu = NoLock
    /\ nops = 0

Threads == DOMAIN calls.th

\* WriteFile and dehydratingFile.Close before the lock: store.Put, then the entry.
PutStep ==
    \E t \in Threads :
    LET c == calls.th[t] IN
    /\ c.op \in WriterOps
    /\ c.pc = "put"
    /\ \E ok \in BOOLEAN :
          IF ok
          THEN /\ store' = StorePut(store, c.data)
               /\ LET entry == Entry(FileMode(FALSE, FALSE, CreatePerm), FS.now,
                                     Len(c.data), Clean(c.name), c4Identify(c.data), << >>)
                  IN calls' = [calls EXCEPT !.th[t] =
                                  [c EXCEPT !.pc = "lock", !.entry = entry,
                                            !.queue = <<entry>>]]
               /\ nops' = nops + 1
          ELSE /\ calls' = [calls EXCEPT !.th[t] = [c EXCEPT !.pc = "done", !.err = "EStore"]]
               /\ UNCHANGED <<store, nops>>
    /\ UNCHANGED <<base, baseIndex, layer, layerIndex, handle, view, mu>>

\* Rename before the lock: getEntry(oldname), under the read lock of getEntry.
CheckOld ==
    \E t \in Threads :
    LET c == calls.th[t]
        oldname == Normalize(c.name)
        newname == Normalize(c.newname)
        r == getEntry(FS, oldname)
    IN
    /\ c.op = "Rename"
    /\ c.pc = "checkOld"
    /\ CanRLock(mu)
    /\ calls' = [calls EXCEPT !.th[t] =
                    IF oldname = << >> \/ newname = << >>
                    THEN [c EXCEPT !.pc = "done", !.err = "ErrRoot"]
                    ELSE IF r.err # "" THEN [c EXCEPT !.pc = "done", !.err = r.err]
                    ELSE [c EXCEPT !.pc = "checkNew", !.entry = r.entry]]
    /\ UNCHANGED <<base, baseIndex, layer, layerIndex, store, handle, view, mu, nops>>

\* Rename before the lock: Exists(newname), under the read lock of getEntry.
CheckNew ==
    \E t \in Threads :
    LET c == calls.th[t] IN
    /\ c.op = "Rename"
    /\ c.pc = "checkNew"
    /\ CanRLock(mu)
    /\ calls' = [calls EXCEPT !.th[t] =
                    IF Exists(FS, Normalize(c.newname))
                    THEN [c EXCEPT !.pc = "done", !.err = "ErrExist"]
                    ELSE [c EXCEPT !.pc = "lock"]]
    /\ UNCHANGED <<base, baseIndex, layer, layerIndex, store, handle, view, mu, nops>>

\* Remove, Chmod and Chtimes before the lock: getEntry(name), under the read
\* lock of getEntry. Chmod and Chtimes build the entry they will install
\* from the entry they read here.
CheckEntry ==
    \E t \in Threads :
    LET c == calls.th[t]
        r == getEntry(FS, c.name)
        newEntry == IF c.op = "Chmod"
                    THEN Entry(c.mode, r.entry.Timestamp, r.entry.Size, Clean(c.name),
                               r.entry.C4ID, r.entry.Target)
                    ELSE Entry(r.entry.Mode, c.mtime, r.entry.Size, Clean(c.name),
                               r.entry.C4ID, r.entry.Target)
    IN
    /\ c.op \in CheckingOps
    /\ c.pc = "check"
    /\ CanRLock(mu)
    /\ calls' = [calls EXCEPT !.th[t] =
                    IF c.op = "Remove" /\ Normalize(c.name) = << >>
                    THEN [c EXCEPT !.pc = "done", !.err = "ErrRoot"]
                    ELSE IF r.err # "" THEN [c EXCEPT !.pc = "done", !.err = r.err]
                    ELSE IF c.op = "Remove"
                    THEN [c EXCEPT !.entry = r.entry,
                                   !.pc = IF IsDir(r.entry) THEN "list" ELSE "lock"]
                    ELSE [c EXCEPT !.entry = r.entry, !.queue = <<newEntry>>,
                                   !.pc = "lock"]]
    /\ UNCHANGED <<base, baseIndex, layer, layerIndex, store, handle, view, mu, nops>>

\* Remove of a directory before the lock: readDir(name), under the read lock
\* of readDir.
ListDir ==
    \E t \in Threads :
    LET c == calls.th[t] IN
    /\ c.op = "Remove"
    /\ c.pc = "list"
    /\ CanRLock(mu)
    /\ \E entries \in {readDir(FS, Normalize(c.name))} :
          calls' = [calls EXCEPT !.th[t] =
                       IF Len(entries) > 0
                       THEN [c EXCEPT !.pc = "done", !.err = "ENOTEMPTY"]
                       ELSE [c EXCEPT !.pc = "lock"]]
    /\ UNCHANGED <<base, baseIndex, layer, layerIndex, store, handle, view, mu, nops>>

\* RemoveAll, entering a nested call: getEntry(name), under the read lock of
\* getEntry. An absent path returns nil to the caller's loop.
EnterFrame ==
    \E t \in Threads :
    LET c == calls.th[t]
        top == c.seen[Len(c.seen)]
        rest == SubSeq(c.seen, 1, Len(c.seen) - 1)
        r == getEntry(FS, top.name)
    IN
    /\ c.op = "RemoveAll"
    /\ c.pc = "enter"
    /\ CanRLock(mu)
    /\ calls' = [calls EXCEPT !.th[t] =
                    IF r.err # ""
                    THEN [c EXCEPT !.seen = rest,
                                   !.pc = IF rest = << >> THEN "done" ELSE "loop"]
                    ELSE [c EXCEPT !.pc = IF IsDir(r.entry) THEN "children" ELSE "lock"]]
    /\ UNCHANGED <<base, baseIndex, layer, layerIndex, store, handle, view, mu, nops>>

\* RemoveAll of a directory: readDir(name), under the read lock of readDir;
\* the child paths are filepath.Join(name, e.Name()).
ListChildren ==
    \E t \in Threads :
    LET c == calls.th[t]
        top == c.seen[Len(c.seen)]
        rest == SubSeq(c.seen, 1, Len(c.seen) - 1)
    IN
    /\ c.op = "RemoveAll"
    /\ c.pc = "children"
    /\ CanRLock(mu)
    /\ \E entries \in {readDir(FS, top.name)} :
          \E todo \in {[i \in 1..Len(entries) |-> Join(top.name, entries[i].name)]} :
             calls' = [calls EXCEPT !.th[t] =
                          [c EXCEPT !.seen = rest \o <<[name |-> top.name, todo |-> todo]>>,
                                    !.pc = "loop"]]
    /\ UNCHANGED <<base, baseIndex, layer, layerIndex, store, handle, view, mu, nops>>

\* RemoveAll's loop over the children: the next child is a nested call, on a
\* new frame; after the last child the directory itself is removed. The
\* nesting has no bound in the code: at MaxRecursion frames the goroutine's
\* stack is exhausted and the call never returns.
NextChild ==
    \E t \in Threads :
    LET c == calls.th[t]
        top == c.seen[Len(c.seen)]
        rest == SubSeq(c.seen, 1, Len(c.seen) - 1)
    IN
    /\ c.op = "RemoveAll"
    /\ c.pc = "loop"
    /\ calls' = [calls EXCEPT !.th[t] =
                    IF top.todo = << >> THEN [c EXCEPT !.pc = "lock"]
                    ELSE IF Len(c.seen) >= MaxRecursion
                    THEN [c EXCEPT !.pc = "overflow", !.err = "Overflow"]
                    ELSE [c EXCEPT !.seen = rest \o <<[name |-> top.name,
                                                        todo |-> Tail(top.todo)],
                                                       NewFrame(Head(top.todo))>>,
                                   !.pc = "enter"]]
    /\ UNCHANGED <<base, baseIndex, layer, layerIndex, store, handle, view, mu, nops>>

\* mu.Lock(): the call owns the layer; Rename collects what it will insert,
\* Remove builds its tombstone, Mkdir and Symlink check and build their entry.
Lock ==
    \E t \in Threads :
    LET c == calls.th[t]
        made == CASE c.op = "Mkdir" -> Mkdir(FS, c.name, c.mode)
                  [] c.op = "Symlink" -> Symlink(FS, c.newname, c.name)
                  [] OTHER -> [err |-> c.err, fs |-> FS]
        stored == IF c.op = "Mkdir" THEN Normalize(c.name) ELSE Clean(c.name)
        queue == CASE c.op = "Rename" ->
                        renameQueue(FS, c.entry, Normalize(c.name), Normalize(c.newname))
                   [] c.op = "Remove" -> <<Tombstone(Normalize(c.name), FS.now)>>
                   [] c.op = "RemoveAll" ->
                        <<Tombstone(c.seen[Len(c.seen)].name, FS.now)>>
                   [] c.op \in LockingOps ->
                        IF made.err = "" THEN <<made.fs.layerIndex[stored]>> ELSE << >>
                   [] OTHER -> c.queue
    IN
    /\ c.pc = "lock"
    /\ CanLock(mu)
    /\ mu' = [writer |-> t, readers |-> {}]
    /\ calls' = [calls EXCEPT !.th[t] =
                    [c EXCEPT !.queue = queue,
                              !.err = made.err,
                              !.pc = IF queue = << >> THEN "unlock" ELSE "evict"]]
    /\ nops' = IF c.op \in {"Rename", "Remove", "RemoveAll"} \cup LockingOps
               THEN nops + 1 ELSE nops
    /\ UNCHANGED <<base, baseIndex, layer, layerIndex, store, handle, view>>

\* updateEntryInLayer, first step: the old entry of that name leaves the list.
Evict ==
    \E t \in Threads :
    LET c == calls.th[t] IN
    /\ c.pc = "evict"
    /\ layer' = IF Head(c.queue).Name \in DOMAIN layerIndex
                THEN RemoveFirstNamed(layer, Head(c.queue).Name)
                ELSE layer
    /\ calls' = [calls EXCEPT !.th[t].pc = "append"]
    /\ UNCHANGED <<base, baseIndex, layerIndex, store, handle, view, mu, nops>>

\* updateEntryInLayer, second step: layer.AddEntry(entry).
AppendEntry ==
    \E t \in Threads :
    LET c == calls.th[t] IN
    /\ c.pc = "append"
    /\ layer' = AddEntry(layer, Head(c.queue))
    /\ calls' = [calls EXCEPT !.th[t].pc = "index"]
    /\ UNCHANGED <<base, baseIndex, layerIndex, store, handle, view, mu, nops>>

\* updateEntryInLayer, third step: layerIndex[name] = entry.
IndexEntry ==
    \E t \in Threads :
    LET c == calls.th[t] IN
    /\ c.pc = "index"
    /\ layerIndex' = MapPut(layerIndex, Head(c.queue).Name, Head(c.queue))
    /\ calls' = [calls EXCEPT !.th[t] =
                    [c EXCEPT !.queue = Tail(c.queue),
                              !.pc = IF Tail(c.queue) = << >> THEN "unlock" ELSE "evict"]]
    /\ UNCHANGED <<base, baseIndex, layer, store, handle, view, mu, nops>>

\* mu.Unlock() and return.
Unlock ==
    \E t \in Threads :
    LET c == calls.th[t] IN
    /\ c.pc = "unlock"
    /\ mu' = NoLock
    /\ calls' = [calls EXCEPT !.th[t] =
                    IF c.op = "RemoveAll"
                    THEN [c EXCEPT !.seen = SubSeq(c.seen, 1, Len(c.seen) - 1),
                                   !.pc = IF Len(c.seen) = 1 THEN "done" ELSE "loop"]
                    ELSE [c EXCEPT !.pc = "done"]]
    /\ UNCHANGED <<base, baseIndex, layer, layerIndex, store, handle, view, nops>>

\* mu.RLock() of a reading call.
RLock ==
    \E t \in Threads :
    LET c == calls.th[t] IN
    /\ c.pc = "rlock"
    /\ CanRLock(mu)
    /\ mu' = [mu EXCEPT !.readers = @ \cup {t}]
    /\ calls' = [calls EXCEPT !.th[t].pc = "read"]
    /\ UNCHANGED <<base, baseIndex, layer, layerIndex, store, handle, view, nops>>

\* A faulty release: the reading call drops the layer's last entry.
RUnlockDraining ==
    \E t \in Threads :
    LET c == calls.th[t] IN
    /\ c.pc = "read"
    /\ mu' = [mu EXCEPT !.readers = @ \ {t}]
    /\ calls' = [calls EXCEPT !.th[t] =
                    [c EXCEPT !.pc = "done", !.seen = Observe(c.op, FS, c.name)]]
    /\ layer' = IF layer = << >> THEN layer ELSE SubSeq(layer, 1, Len(layer) - 1)
    /\ UNCHANGED <<base, baseIndex, layerIndex, store, handle, view, nops>>

\* The reading call computes its result and releases the read lock.
RUnlock ==
    \E t \in Threads :
    LET c == calls.th[t] IN
    /\ c.pc = "read"
    /\ mu' = [mu EXCEPT !.readers = @ \ {t}]
    /\ calls' = [calls EXCEPT !.th[t] =
                    [c EXCEPT !.pc = "done", !.seen = Observe(c.op, FS, c.name)]]
    /\ UNCHANGED <<base, baseIndex, layer, layerIndex, store, handle, view, nops>>

ConcNext ==
    \/ PutStep
    \/ CheckOld
    \/ CheckNew
    \/ CheckEntry
    \/ ListDir
    \/ EnterFrame
    \/ ListChildren
    \/ NextChild
    \/ Lock
    \/ Evict
    \/ AppendEntry
    \/ IndexEntry
    \/ Unlock
    \/ RLock
    \/ RUnlock

ConcSpec == ConcInit /\ [][ConcNext]_vars

\* The runs checked for termination: RemoveAll next to another call, two
\* renames, two Remove calls.
FairScenarios ==
    {s \in WalkScenarios : \/ s.start = StartPlain /\ s.th[1].name = <<"a">>
                           \/ s.start = StartDot /\ s.th[1].name = <<".">>}
    \cup {s \in RenameScenarios : /\ s.th[1].name = <<"a", "a">>
                                  /\ s.th[2].name = <<"b">>}
    \cup {s \in RemoveScenarios : s.start = StartEmptyDir /\ s.th[1].name = <<"c">>}

FairInit ==
    /\ calls \in FairScenarios
    /\ base = calls.start.base
    /\ baseIndex = calls.start.baseIndex
    /\ layer = calls.start.layer
    /\ layerIndex = calls.start.layerIndex
    /\ store = calls.start.store
    /\ handle = NoHandle
    /\ view = NoView
    /\ mu = NoLock
    /\ nops = 0

\* The scheduler runs a goroutine that can take a step; a goroutine waiting
\* for mu is woken when the lock is released.
FairConcSpec == FairInit /\ [][ConcNext]_vars /\ WF_vars(ConcNext)

\* ------------------------------------------------------------------------
\* Concurrent calls: vocabulary
\* ------------------------------------------------------------------------

AllDone == \A t \in Threads : calls.th[t].pc = "done"

\* The calls that are between mu.Lock() and mu.Unlock().
InsideLock == {t \in Threads : calls.th[t].pc \in {"evict", "append", "index", "unlock"}}

Succeeded == {t \in Threads : calls.th[t].pc = "done" /\ calls.th[t].err = ""}

IsWriterRun == Threads # {} /\ \A t \in Threads : calls.th[t].op \in WriterOps

\* C23: for every interleaving of two or more concurrent WriteFile / Close
\* calls on one path p, at most one call is inside the evict, append, index
\* steps at a time and it is the holder of the write lock; when all calls
\* have returned and at least one succeeded, the layer holds exactly one
\* entry for p, it is the entry of one of the successful calls, and the
\* index points at it.
C23_ConcurrentWriters ==
    IsWriterRun =>
        LET p == <<"a", "a">>
            named == {i \in 1..Len(layer) : layer[i].Name = p}
        IN /\ Cardinality(InsideLock) <= 1
           /\ InsideLock \subseteq {mu.writer}
           /\ (AllDone /\ Succeeded # {}) =>
                 /\ Cardinality(named) = 1
                 /\ p \in DOMAIN layerIndex
                 /\ \E t \in Succeeded :
                       /\ \A i \in named : layer[i] = calls.th[t].entry
                       /\ layerIndex[p] = calls.th[t].entry
           /\ (AllDone /\ Succeeded = {}) =>
                 /\ layer = calls.start.layer
                 /\ layerIndex = calls.start.layerIndex

\* A WriteFile and a Close on a/a, which the layer already held, have both
\* returned with success; the WriteFile took the lock last and its entry is
\* the one the layer keeps.
C23_Witness ==
    /\ IsWriterRun
    /\ AllDone
    /\ Succeeded = Threads
    /\ calls.start = StartLayered
    /\ calls.th[1].op = "WriteFile"
    /\ calls.th[2].op = "Close"
    /\ calls.th[1].entry # calls.th[2].entry
    /\ calls.th[1].entry.Timestamp < calls.th[2].entry.Timestamp
    /\ layerIndex[<<"a", "a">>] = calls.th[1].entry

IsRenameRun ==
    /\ Threads = {1, 2}
    /\ calls.th[1].op = "Rename"
    /\ calls.th[2].op \in WriterOps \cup {"Rename"}

\* The paths at which two runs are compared.
ConcProbe ==
    {<<"a">>, <<"a", "a">>, <<"a", "b">>, <<"b">>, <<"c">>, <<"c", "a">>, <<"c", "b">>,
     <<"d">>, <<"d", "a">>, <<"d", "b">>}

\* The composed view of fs: what lookup yields at each path, times left out.
ViewOf(fs) ==
    [p \in ConcProbe |->
        LET r == getEntry(fs, p) IN
        IF r.err # "" THEN [err |-> r.err]
        ELSE [err |-> "", mode |-> r.entry.Mode, size |-> r.entry.Size,
              id |-> r.entry.C4ID, target |-> r.entry.Target]]

\* The call c run alone on fs, from call to return; a writer's store.Put
\* fails in the run alone when it failed in the concurrent run.
ApplyCall(fs, c) ==
    CASE c.op = "Rename" -> Rename(fs, c.name, c.newname)
      [] c.op = "WriteFile" ->
            WriteFile(fs, c.name, c.data, FileMode(FALSE, FALSE, CreatePerm),
                      c.err # "EStore")
      [] c.op = "Remove" -> Remove(fs, c.name)
      [] c.op = "RemoveAll" -> RemoveAll(fs, c.name)
      [] c.op = "Mkdir" -> Mkdir(fs, c.name, c.mode)
      [] c.op = "Symlink" -> Symlink(fs, c.newname, c.name)
      [] c.op = "Chmod" -> Chmod(fs, c.name, c.mode)
      [] c.op = "Chtimes" -> Chtimes(fs, c.name, 0, c.mtime)
      [] c.op = "Close" ->
            HandleClose(fs, [newDehydratingFile(c.name, FileMode(FALSE, FALSE, CreatePerm))
                                EXCEPT !.buf = c.data],
                        c.err # "EStore")

\* The two calls run one after the other, the call `first` first.
SeqRun(first, second) ==
    LET r1 == ApplyCall(calls.start, calls.th[first])
        r2 == ApplyCall([r1.fs EXCEPT !.now = @ + 1], calls.th[second])
    IN [errs |-> [t \in {first, second} |-> IF t = first THEN r1.err ELSE r2.err],
        fs |-> r2.fs]

\* C24: for every interleaving of Rename(a, c) with a concurrent
\* Rename(b, c), Rename(a, d) or WriteFile(c, x), once both calls have
\* returned their results and the composed view equal those of the two calls
\* run one after the other in some order; in particular two renames onto the
\* same absent destination do not both succeed.
C24_RenameLinearizable ==
    (IsRenameRun /\ AllDone) =>
        /\ \E order \in {<<1, 2>>, <<2, 1>>} :
              LET s == SeqRun(order[1], order[2]) IN
              /\ \A t \in Threads : calls.th[t].err = s.errs[t]
              /\ ViewOf(FS) = ViewOf(s.fs)
        /\ (calls.th[2].op = "Rename" /\ calls.th[2].newname = calls.th[1].newname)
              => Succeeded # Threads

IsReaderRun ==
    /\ Threads = {1, 2}
    /\ calls.th[1].op = "Rename"
    /\ calls.th[2].op \in ReaderOps

\* The file system after the whole batch of Rename(a, c), run alone on the start.
AfterRename == Rename(calls.start, <<"a">>, <<"c">>).fs

\* The descendants of a, a itself included, as paths below a.
Descendants == {s \in {<< >>, <<"a">>, <<"b">>} : Exists(calls.start, <<"a">> \o s)}

\* The descendant s of a is live under prefix: the lookup of prefix/s yields
\* the entry that the start had at a/s, under its new name.
LiveUnder(fs, prefix, s) ==
    LET r == getEntry(fs, prefix \o s)
        e == getEntry(calls.start, <<"a">> \o s).entry
    IN r.err = "" /\ [r.entry EXCEPT !.Name = << >>] = [e EXCEPT !.Name = << >>]

\* C25: while the directory rename Rename(a, c) with several descendants
\* runs next to a reader, the result of a single lookup, ReadDir, Glob,
\* Flatten or ReferencedIDs call is its result on the state before the whole
\* batch or on the state after it; whenever the write lock is free the layer
\* is that of the state before or after the batch, and each descendant is
\* live under exactly one of the prefixes a and c.
C25_NoPartialRename ==
    IsReaderRun =>
        /\ calls.th[2].pc = "done" =>
              \/ calls.th[2].seen = Observe(calls.th[2].op, calls.start, calls.th[2].name)
              \/ calls.th[2].seen = Observe(calls.th[2].op, AfterRename, calls.th[2].name)
        /\ mu.writer = 0 =>
              /\ \/ layer = calls.start.layer /\ layerIndex = calls.start.layerIndex
                 \/ layer = AfterRename.layer /\ layerIndex = AfterRename.layerIndex
              /\ \A s \in Descendants :
                    LiveUnder(FS, <<"a">>, s) # LiveUnder(FS, <<"c">>, s)

\* The batch is half applied (a descendant is live under both prefixes)
\* while the reader, a lookup of c/b, waits for the read lock.
C25_Witness ==
    /\ IsReaderRun
    /\ mu.writer = 1
    /\ calls.th[2].pc = "rlock"
    /\ calls.th[2].op = "getEntry"
    /\ calls.th[2].name = <<"c", "b">>
    /\ Cardinality(Descendants) = 3
    /\ LiveUnder(FS, <<"a">>, <<"b">>)
    /\ LiveUnder(FS, <<"c">>, <<"b">>)

\* ------------------------------------------------------------------------
\* Snapshot equivalence
\* ------------------------------------------------------------------------

\* New(Flatten(fs)) on the same store.
Snapshot(fs) == New(Flatten(fs), fs.store, fs.now)

\* What lookup shows of a path: existence, type, size, fingerprint, target.
Shown(fs, p) ==
    LET r == getEntry(fs, p) IN
    IF r.err # "" THEN [err |-> r.err]
    ELSE [err |-> "", dir |-> r.entry.Mode.dir, symlink |-> r.entry.Mode.symlink,
          size |-> r.entry.Size, id |-> r.entry.C4ID, target |-> r.entry.Target]

ReadDirNames(fs, d) == {readDir(fs, d)[i].name : i \in 1..Len(readDir(fs, d))}

\* C26: in every state reached from a base with unique paths,
\* New(Flatten(fs)) presents the same composed view as fs: every path has the
\* same existence, type, size, fingerprint and symlink target, ReadDir of
\* every directory returns the same names, and ReferencedIDs() is the same
\* set.
C26_SnapshotEquivalence ==
    /\ \A p \in ProbePaths : Shown(Snapshot(FS), p) = Shown(FS, p)
    /\ \A d \in ProbePaths :
          IsDirPath(FS, d) => ReadDirNames(Snapshot(FS), d) = ReadDirNames(FS, d)
    /\ ReferencedIDs(Snapshot(FS)) = ReferencedIDs(FS)

\* ------------------------------------------------------------------------
\* Directory view
\* ------------------------------------------------------------------------

\* The paths that are direct children of the directory d (normalized): clean
\* non-root paths one component below d.
ChildPaths(fs, d) ==
    {p \in KnownPaths(fs) : Clean(p) = p /\ NonRoot(p) /\ ChildOf(p, d)}

\* C27: in every reachable state ReadDir(d) returns exactly one entry for
\* each direct child p of d for which lookup(p) succeeds, carrying the size,
\* mode and type of lookup(p), and no other entry: none for a tombstoned or
\* otherwise non-live child.
C27_DirectoryView ==
    \A d \in ProbePaths :
        LET listing == readDir(FS, d)
            live == {p \in ChildPaths(FS, Normalize(d)) : getEntry(FS, p).err = ""}
        IN /\ \A p \in live :
                 LET at == {i \in 1..Len(listing) : listing[i].name = Base(p)}
                     e == getEntry(FS, p).entry
                 IN /\ Cardinality(at) = 1
                    /\ \A i \in at : /\ listing[i].size = e.Size
                                     /\ listing[i].mode = e.Mode
                                     /\ listing[i].isDir = IsDir(e)
           /\ \A i \in 1..Len(listing) : \E p \in live : listing[i].name = Base(p)

\* ------------------------------------------------------------------------
\* Creation on paths absent from the composed view
\* ------------------------------------------------------------------------

\* C28: Mkdir(p) succeeds for every non-root path p for which Exists(p) is
\* false, also when p was created and then removed or is a base path that was
\* removed (a layer tombstone at p); afterwards IsDir(p) is true.
C28_MkdirOnAbsent ==
    \A p \in ProbePaths :
        LET m == Mkdir(FS, p, DirPerm) IN
        (NonRoot(p) /\ ~Exists(FS, p)) => (m.err = "" /\ IsDirPath(m.fs, p))

\* C29: for a non-root path p, Symlink(target, p) fails with AlreadyExists and leaves the layer
\* unchanged exactly when Exists(p) is true; when p is absent from the
\* composed view, also a base path removed earlier, it succeeds and inserts
\* one symlink entry of size 0 with the given target and no fingerprint.
C29_Symlink ==
    \A t \in TargetArgs, p \in ProbePaths :
        LET s == Symlink(FS, t, p)
            name == Clean(p)
            e == Entry(FileMode(FALSE, TRUE, SymlinkPerm), FS.now, 0, name, NilID, t)
        IN NonRoot(p) =>
              IF Exists(FS, p)
              THEN s.err = "ErrExist" /\ s.fs = FS
              ELSE /\ s.err = ""
                   /\ s.fs.layer = Append(RemoveFirstNamed(layer, name), e)
                   /\ s.fs.layerIndex = MapPut(layerIndex, name, e)
                   /\ s.fs.base = base

\* C30: no return to the base entry.  The set of paths that have a layer
\* entry, live or tombstone, never shrinks; a path with a layer entry is
\* looked up in the layer (its live entry, or NotExist at a tombstone), never
\* in the base; and a tombstoned path exists again only once the layer list
\* holds a live entry at that same path.
C30_NoReturnToBase ==
    /\ [][NamesOf(layer) \subseteq NamesOf(layer')]_vars
    /\ [](\A n \in NamesOf(layer) :
             NonRoot(n) =>
                IF TombstonedInLayer(FS, n) THEN ~Exists(FS, n)
                ELSE getEntry(FS, n) = [err |-> "", entry |-> layerIndex[n]])
    /\ [][\A n \in NamesOf(layer) :
             (NonRoot(n) /\ TombstonedInLayer(FS, n) /\ Exists(FS, n)') =>
                 \E i \in 1..Len(layer') :
                     layer'[i].Name = n /\ layer'[i].Size # TombstoneSize]_vars

\* A base path is tombstoned in the layer and a second path that was
\* tombstoned carries a live layer entry again.
C30_Witness ==
    /\ nops = MaxOps
    /\ \E n \in NamesOf(base) : TombstonedInLayer(FS, n) /\ ~Exists(FS, n)
    /\ \E n \in NamesOf(base) :
          /\ InLayer(FS, n) /\ ~TombstonedInLayer(FS, n)
          /\ getEntry(FS, n).entry # baseIndex[n]

\* ------------------------------------------------------------------------
\* Reading calls
\* ------------------------------------------------------------------------

IsReadOnlyRun == \A t \in Threads : calls.th[t].op \in ReaderOps

SinglePathCalls(fs) ==
    {[name |-> p, r |-> WriteFile(fs, p, d, FilePerm, TRUE)] : p \in PathArgs, d \in DataArgs}
    \cup {[name |-> p, r |-> Mkdir(fs, p, DirPerm)] : p \in PathArgs}
    \cup {[name |-> p, r |-> Remove(fs, p)] : p \in PathArgs}
    \cup {[name |-> p, r |-> Chmod(fs, p, m)] : p \in PathArgs, m \in ModeArgs}
    \cup {[name |-> p, r |-> Chtimes(fs, p, at, mt)] :
              p \in PathArgs, at \in ATimeArgs, mt \in MTimeArgs}
    \cup {[name |-> p, r |-> Symlink(fs, t, p)] : p \in PathArgs, t \in TargetArgs}

\* The layer's entries of the name n, in list order, with the index's entry.
LayerAt(fs, n) ==
    [listed |-> SelectSeq(fs.layer, LAMBDA e : e.Name = n),
     indexed |-> IF n \in DOMAIN fs.layerIndex THEN <<fs.layerIndex[n]>> ELSE << >>]

\* C32: a successful WriteFile, Mkdir, Remove, Chmod, Chtimes or Symlink
\* leaves one entry in the layer at its cleaned target path, and for every
\* other path the layer's entry (or its absence), the index's entry and the
\* result of the lookup are what they were before the call.
C32_SinglePathEffect ==
    \A c \in SinglePathCalls(FS) :
        c.r.err = "" =>
            LET target == Clean(c.name) IN
            /\ Len(LayerAt(c.r.fs, target).listed) = 1
            /\ LayerAt(c.r.fs, target).indexed = LayerAt(c.r.fs, target).listed
            /\ c.r.fs.base = FS.base
            /\ \A q \in (KnownPaths(FS) \cup KnownPaths(c.r.fs)) \ {target} :
                  /\ LayerAt(c.r.fs, q) = LayerAt(FS, q)
                  /\ getEntry(c.r.fs, q) = getEntry(FS, q)

\* The layer holds an entry for a and the file a/b is live; Remove(a/b) and
\* WriteFile(a/b) then act next to the entry for a.
C32_Witness ==
    /\ LayerAt(FS, <<"a">>).listed # << >>
    /\ LayerAt(FS, <<"a", "b">>).listed # << >>
    /\ Head(layer).Name # <<"a", "b">>
    /\ Remove(FS, <<"a", "b">>).err = ""
    /\ LayerAt(Remove(FS, <<"a", "b">>).fs, <<"a", "b">>).listed # LayerAt(FS, <<"a", "b">>).listed

\* ------------------------------------------------------------------------
\* Concurrent calls on one path
\* ------------------------------------------------------------------------

IsRemoveRun == \A t \in Threads : calls.th[t].op = "Remove"

\* The errors the calls returned, as a bag would count them: how many calls
\* returned err.
Returned(err) == Cardinality({t \in Threads : calls.th[t].err = err})

\* C33: when two Remove(p) calls on the same existing file have run
\* concurrently and both have returned, exactly one returned success and the
\* other returned NotExist.
C33_ConcurrentRemove ==
    (/\ IsRemoveRun
     /\ AllDone
     /\ getEntry(calls.start, calls.th[1].name).err = ""
     /\ ~IsDir(getEntry(calls.start, calls.th[1].name).entry))
        => /\ Returned("") = 1
           /\ Returned("ErrNotExist") = 1

\* ------------------------------------------------------------------------
\* Termination
\* ------------------------------------------------------------------------

\* C34: under fair scheduling every call eventually returns, and when all
\* calls have returned the lock is free: no return path keeps it.
C34_EveryCallReturns ==
    /\ <>AllDone
    /\ [](AllDone => mu = NoLock)

\* ------------------------------------------------------------------------
\* Subtree confinement
\* ------------------------------------------------------------------------

\* Link targets that leave the directory of the link.
EscapingTargets == {<<"..", "b">>, <<"/", "b">>}

\* The file system as it is, and after one more Symlink call.
WithLink(fs) ==
    {fs} \cup {Symlink(fs, t, p).fs : t \in TargetArgs \cup EscapingTargets, p \in PathArgs}

\* The names a caller may hand to a view, valid or not.
ViewArgs == ViewNames \cup {<<"..", "b">>, <<"/", "b">>, <<"..">>}

\* The path n is dir or lies below it.
Inside(n, dir) == n = dir \/ Under(n, dir)

\* Every call through the view on dir that succeeds returns the entry of a
\* path inside dir.
Confined(fs, dir) ==
    LET s == Sub(fs, dir).view IN
    \A n \in ViewArgs :
        LET r == resolveSymlink(fs, Join(s.prefix, n), DefaultDepth) IN
        /\ subStat(fs, s, n).err = "" => Inside(r.entry.Name, s.prefix)
        /\ subOpen(fs, s, n).err = "" => Inside(r.entry.Name, s.prefix)
        /\ subReadFile(fs, s, n).err = "" => Inside(r.entry.Name, s.prefix)
        /\ subReadDir(fs, s, n).err = "" =>
              \A i \in 1..Len(subReadDir(fs, s, n).entries) :
                  \E m \in NamesOf(fs.layer) \cup NamesOf(fs.base) :
                      /\ Inside(m, s.prefix)
                      /\ Base(m) = subReadDir(fs, s, n).entries[i].name

\* C35: through a view returned by Sub(dir), dir not the root, no Open,
\* Stat, ReadFile or ReadDir call returns content or metadata of an entry
\* whose resolved path lies outside dir: not by a name with ".." or a leading
\* slash, and not by a symlink stored inside dir whose target points outside.
C35_SubtreeConfinement ==
    \A fs \in WithLink(FS) :
        \A dir \in DirArgs :
            (Normalize(dir) # << >> /\ Sub(fs, dir).err = "") => Confined(fs, dir)

IsCreateRun ==
    /\ \A t \in Threads : calls.th[t].op \in LockingOps
    /\ calls.th[1].name = calls.th[2].name

\* C36: when two Mkdir(p) calls, two Symlink(t, p) calls or one of each have
\* run concurrently on the same absent path and both have returned, exactly
\* one returned success and the other AlreadyExists, and the layer holds
\* exactly one entry for p.
C36_CreateIsAtomic ==
    (/\ IsCreateRun
     /\ AllDone
     /\ ~Exists(calls.start, calls.th[1].name))
        => /\ Returned("") = 1
           /\ Returned("ErrExist") = 1
           /\ Len(LayerAt(FS, Clean(calls.th[1].name)).listed) = 1
           /\ LayerAt(FS, Clean(calls.th[1].name)).indexed
                 = LayerAt(FS, Clean(calls.th[1].name)).listed

\* ------------------------------------------------------------------------
\* Directory rename and deleted entries
\* ------------------------------------------------------------------------

\* The suffixes s with prefix + s live in fs, the empty suffix (the directory
\* itself) included.
LiveSuffixes(fs, prefix) ==
    {Suffix(n, prefix) : n \in {m \in KnownPaths(fs) :
                                  /\ m = prefix \/ Under(m, prefix)
                                  /\ m = Clean(m)
                                  /\ Exists(fs, m)}}

\* C37: after Rename(old, new) of a directory succeeds, the live paths under
\* new are exactly new + s for the s with old + s live immediately before
\* the call; a descendant in base under old that was removed before the
\* rename does not exist under new afterwards.
C37_NoResurrection ==
    \A old \in PathArgs, new \in PathArgs :
        LET r == Rename(FS, old, new) IN
        (/\ r.err = ""
         /\ IsDir(getEntry(FS, old).entry))
            => /\ LiveSuffixes(r.fs, Normalize(new)) = LiveSuffixes(FS, Normalize(old))
               /\ \A n \in NamesOf(FS.base) :
                     (Under(n, Normalize(old)) /\ TombstonedInLayer(FS, n))
                        => ~Exists(r.fs, Normalize(new) \o Suffix(n, Normalize(old)))

\* ------------------------------------------------------------------------
\* Chmod and the entry's type
\* ------------------------------------------------------------------------

\* C38: after Chmod(p, m) with m holding permission bits only, a directory p
\* is still a directory (IsDir(p) holds and ReadDir lists what it listed
\* before) and a symlink p is still a symlink (Lstat reports the symlink type
\* and Stat still reports what the target's entry is).
C38_ChmodKeepsType ==
    \A p \in PathArgs, m \in ModeArgs :
        LET r == Chmod(FS, p, m)
            e == getEntry(FS, p).entry
        IN (r.err = "" /\ NonRoot(p)) =>
              /\ IsDir(e) =>
                    /\ IsDirPath(r.fs, p)
                    /\ IsDir(getEntry(r.fs, p).entry)
                    /\ readDir(r.fs, p) = readDir(FS, p)
              /\ e.Mode.symlink =>
                    /\ Lstat(r.fs, p).err = ""
                    /\ Lstat(r.fs, p).info.mode.symlink
                    /\ Stat(r.fs, p) = Stat(FS, p)

\* ------------------------------------------------------------------------
\* Garbage collection of the store
\* ------------------------------------------------------------------------

\* StoreAdapter.Delete(id).
StoreDelete(st, id) == {d \in st : c4Identify(d) # id}

\* The collection the GC documentation describes: every blob whose
\* fingerprint is not in ReferencedIDs() is deleted from the store.
Collect(fs) ==
    LET orphaned == {c4Identify(d) : d \in fs.store} \ ReferencedIDs(fs) IN
    [fs EXCEPT !.store = {d \in fs.store :
                             \A id \in orphaned : d \in StoreDelete(fs.store, id)}]

\* C39: in any reachable state, after every blob whose fingerprint is not in
\* ReferencedIDs() was deleted from the store, every path for which ReadFile
\* succeeded before still succeeds with the same bytes, files of size 0
\* included.
C39_GCSafety ==
    \A p \in KnownPaths(FS) :
        ReadFile(FS, p).err = "" => ReadFile(Collect(FS), p) = ReadFile(FS, p)

\* ------------------------------------------------------------------------
\* Metadata updates next to writes
\* ------------------------------------------------------------------------

IsMetaRun == calls.th[1].op \in {"Chmod", "Chtimes"}

\* What lookup finds at p; a reading of the clock counts as 0, a time set
\* by Chtimes as itself.
FinalAt(fs, p) ==
    LET r == getEntry(fs, p) IN
    IF r.err # "" THEN r
    ELSE [err |-> "",
          entry |-> [r.entry EXCEPT !.Timestamp = IF @ \in MTimeArgs THEN @ ELSE 0]]

\* C40: when Chmod(p, m) or Chtimes(p, a, t) has run concurrently with
\* WriteFile(p, d) or Remove(p) and both have returned, the final entry at p
\* equals the result of the two calls run one after the other in some order;
\* the fingerprint that a completed WriteFile replaced is not installed
\* again, and a path that a completed Remove tombstoned is not revived.
C40_MetadataLinearizable ==
    (IsMetaRun /\ AllDone) =>
        LET p == calls.th[1].name
            other == calls.th[2]
        IN
        /\ \E order \in {<<1, 2>>, <<2, 1>>} :
              FinalAt(FS, p) = FinalAt(SeqRun(order[1], order[2]).fs, p)
        /\ (other.op = "WriteFile" /\ other.err = "")
              => getEntry(FS, p).entry.C4ID = c4Identify(other.data)
        /\ (other.op = "Remove" /\ other.err = "") => ~Exists(FS, p)

====
